---- MODULE Spec2Model ----
(***************************************************************************)
(* Model of the auto wake-up engine of antigravity-usage: the reset        *)
(* detector (reset-detector.ts), the trigger executor (trigger-service.ts) *)
(* and the persisted wake-up documents (storage.ts).                       *)
(*                                                                         *)
(* Times are integer milliseconds.  An ISO-8601 timestamp string is the    *)
(* pair <<seconds, milliseconds>>; the absent string (undefined) is <<>>.  *)
(* An absent number (undefined) is Undefined.  Error messages are tuples   *)
(* of their fixed text and their interpolated values.                      *)
(***************************************************************************)
EXTENDS Integers, Sequences, FiniteSets, TLC

\* ------------------------------------------------------------------ bounds
\* detectResetAndTrigger invocations in one behaviour
MaxRuns == 2
\* executeTrigger calls in one behaviour (a cycle is started only if it fits)
MaxCalls == 2
\* the time a generation request takes to answer, in ms
Latency == 1000
\* the longest models list of a direct executeTrigger call; the direct calls
\* of one behaviour request at most this many models together
MaxModels == 5
\* addTriggerRecord calls per behaviour of the history
MaxAppends == 105
\* fetchQuota calls in one behaviour
MaxFetches == 2
\* writes of reset-state by other callers while an invocation is suspended
MaxRewrites == 1

\* ------------------------------------------------------- program constants
FULL_QUOTA_THRESHOLD == 99
RESET_TIME_MIN_MS == 45 * 6 * 60 * 1000
RESET_TIME_MAX_MS == 55 * 6 * 60 * 1000
DEFAULT_COOLDOWN_MS == 60 * 60 * 1000
DEFAULT_PROMPT == "hi"
REQUEST_TIMEOUT_MS == 30000
MAX_CONCURRENT_REQUESTS == 4
MAX_HISTORY_ENTRIES == 100

\* ------------------------------------------------------------ value model
Undefined == -1
UndefinedStr == "<undefined>"
NoSelection == <<UndefinedStr>>
NoISO == <<>>
NoError == <<>>

ToISOString(t) == <<t \div 1000, t % 1000>>
ParseISO(s) == s[1] * 1000 + s[2]

Max(a, b) == IF a >= b THEN a ELSE b
Min(a, b) == IF a <= b THEN a ELSE b

\* ---------------------------------------------------------------- inputs
HOUR == 60 * 60 * 1000
Emails == {"a@x", "b@x"}
ModelIds == {"m1", "m2"}


VARIABLES
  config,        \* config.json: <<>> (no file) or <<WakeupConfig>>
  modelMapping,  \* model-mapping.json: model ID -> model constant
  resetState,    \* reset-state.json: key -> [lastResetAt, lastTriggeredTime]
  history,       \* history.json: TriggerRecords, newest first
  accountStatus, \* account directory: email -> "valid" | "expired" | "invalid"
  activeEmail,   \* the active account of the account manager
  now,           \* the clock (Date.now())
  faults,        \* the faults the environment can show in this behaviour
  runs,          \* detectResetAndTrigger invocations so far
  dpc,           \* detectResetAndTrigger: "idle" | "fanout" | "returned" | "threw"
  dsnapshot,     \* its argument: snapshot.models
  dconfig,       \* its loaded config
  dloaded,       \* the reset-state document at its call: what it loads once
                 \* before the scan
  dnow,          \* its now
  daccounts,     \* its eligible accounts
  dbatch,        \* its modelsToTrigger
  dk,            \* index in daccounts of the account being triggered
  dsuccess,      \* its successCount
  dresult,       \* its return value
  dcalls,        \* the options of the executeTrigger calls it has made
  triggerLog,    \* model ID -> the times of the scans that put it in a batch,
                 \* since reset-state was last cleared
  epc,           \* executeTrigger: "idle" | "token" | "project" | "batch"
                 \*                 | "returned" | "threw"
  eopts,         \* its options
  ei,            \* its loop variable i (start of the current batch)
  eresults,      \* its results
  ereq,          \* the triggerSingleModel promises of the current batch
  estart,        \* startTime of the current batch's requests
  eret,          \* its return value
  ncalls,        \* executeTrigger calls so far
  inflight,      \* generateContent calls not completed: <<call, index>>
  racing,        \* those of them whose race against the timer is undecided
  eoutcome,      \* index of each model it has called generateContent for ->
                 \* how the race of that request ended ("pending" until then)
  elog,          \* the calls it has made, in order: <<function, detail>>, the
                 \* detail being how the call ended or the model requested
  probe,         \* the last call of a read-only operation: [fn, arg, result]
  appended,      \* the records appended to the history (since it was last
                 \* cleared or saved as a whole) by direct
                 \* addTriggerRecord calls, oldest first
  crontab,       \* the user's crontab: its lines, each a sequence of words
  platform,      \* process.platform
  cronBefore,    \* the crontab as the last installCronJob call read it
  cronCalls,     \* installCronJob / uninstallCronJob in progress: between the
                 \* crontab -l and the crontab - of the call, the lines it read
  cronTrace,     \* the last three changes and reads-for-change of the crontab
  fpc,           \* fetchQuota: "idle" | "detect" | "discover" | "probe" | "status"
                 \*             | "loadCodeAssist" | "fetchAvailableModels" (the
                 \*             request of fetchQuotaGoogle in progress)
                 \*             | "returned" | "threw"
  fcount,        \* the fetchQuota calls made so far
  fmethod,       \* its method
  fprocess,      \* fetchQuotaLocal: processInfo
  fports,        \* its ports
  fcalls,        \* the calls of the local module and of the cloud client it
                 \* has made, with arguments or outcome
  fresult,       \* what fetchQuota returned or threw
  ppc,           \* resolveProjectId: "idle" | "load" | "onboard" | "wait" | "poll"
                 \*                   | "returned" | "threw"
  projectId,     \* CloudCodeClient.projectId
  pcached,       \* its value when resolveProjectId was called
  pload,         \* loadResponse: the answer to the first status query
  ptier,         \* tierId
  pi,            \* the loop variable i of the retry loop
  plog,          \* the requests and waits of the call, in order
  presult,       \* what resolveProjectId returned
  tpc,           \* the token manager: "idle" | "request" | "sleep" | "returned"
                 \*                    | "threw"
  tokens,        \* TokenManager.tokens: <<>> (null) or <<StoredTokens>>
  tcall,         \* the method called: "getValidAccessToken" | "refreshToken"
  tattempt,      \* refreshToken: attempt
  tlog,          \* the refresh requests (with the message of the error they
                 \* ended with), saves and sleeps of the call, in order
  tresult,       \* what the call returned or threw
  opc,           \* two detectResetAndTrigger invocations of one process, each
                 \* "idle" | "fanout" (suspended in its fan-out) | "returned"
  osnapshot,     \* their snapshots
  obatch,        \* their modelsToTrigger
  ostart,        \* their now
  oduring,       \* the invocations that were suspended when each started
  oresult,       \* their return values
  ofan,          \* their fan-out loops: [accounts, cfg, k, success] with k
                 \* the account whose executeTrigger call is awaited and
                 \* success the loop's successCount, and that call: [pc,
                 \* opts, bi, start, req, results, ret], pc being "idle" |
                 \* "token" | "project" | "batch" | "returned", bi and start
                 \* the first index and the dispatch time of its batch, req
                 \* the requests of the batch
  orewrites,     \* how often reset-state was cleared or replaced (by
                 \* clearResetState, saveResetState) while an invocation
                 \* was suspended
  efired,        \* the requests of the executeTrigger call whose timer fired
                 \* after the response: <<call, index>>
  instance,      \* tokenManagerInstance: the account whose tokens the singleton
                 \* holds, UndefinedStr when it is null
  acalls,        \* the fetchQuotaForAccount calls: [email, original, switched, pc]
  lpc,           \* fetchAllAccountsQuota: "idle" | "loop" | "done"
  lk,            \* the accounts its loop is through with
  lactive,       \* its activeEmail
  loptions,      \* its options: [method, refresh]
  lresults,      \* its results: <<email, status>>
  scall          \* the fetchSingleAccountQuota call: [account, original,
                 \* switched, method, pc, stage], pc being "idle" |
                 \* "fetching" | "returned" | "exited" (process.exit) and
                 \* stage the part of fetchQuota it awaits: "local" |
                 \* "google" | "rejected" (fetchQuota has thrown)

dvars == <<runs, dpc, dsnapshot, dconfig, dloaded, dnow, daccounts, dbatch, dk, dsuccess, dresult, dcalls,
           triggerLog>>
evars == <<epc, eopts, ei, eresults, ereq, estart, eret, ncalls, inflight, racing, eoutcome,
           elog>>
host == <<crontab, platform, cronBefore, cronCalls, cronTrace>>
fvars == <<fpc, fcount, fmethod, fprocess, fports, fcalls, fresult>>
pvars == <<ppc, projectId, pcached, pload, ptier, pi, plog, presult>>
tvars == <<tpc, tokens, tcall, tattempt, tlog, tresult>>
ovars == <<opc, osnapshot, obatch, ostart, oduring, oresult, ofan, orewrites>>
avars == <<instance, acalls, lpc, lk, lactive, loptions, lresults, scall>>
docs == <<config, modelMapping, accountStatus, activeEmail, faults, host, fvars, pvars, tvars,
          ovars, efired, avars>>
qvars == <<probe, appended>>
vars == <<docs, resetState, history, now, dvars, evars, qvars>>

\* the account directory, in directory order (getAccountEmails)
Directory == <<"a@x", "b@x">>

\* --------------------------------------------------------------- storage
\* loadWakeupConfig: null when no config exists
loadWakeupConfig == config

\* getModelConstant: mapping[modelId], undefined when absent
getModelConstant(modelId) ==
  IF modelId \in DOMAIN modelMapping THEN modelMapping[modelId] ELSE UndefinedStr

\* getResetKey: the constant if available (and non-empty), else the model ID
getResetKey(modelId) ==
  IF getModelConstant(modelId) \in {UndefinedStr, ""} THEN modelId
  ELSE getModelConstant(modelId)

\* variant: the document is started afresh
updateResetState_Afresh(state, modelKey, resetAt, t) ==
  [k \in {modelKey} |-> [lastResetAt |-> resetAt, lastTriggeredTime |-> ToISOString(t)]]

\* variant: the entry is not written
updateResetState_NotSaved(state, modelKey, resetAt, t) == state

\* updateResetState: state[modelKey] = {lastResetAt, lastTriggeredTime: now}
updateResetState(state, modelKey, resetAt, t) ==
  [k \in DOMAIN state \cup {modelKey} |->
     IF k = modelKey
     THEN [lastResetAt |-> resetAt, lastTriggeredTime |-> ToISOString(t)]
     ELSE state[k]]

\* variant: the history is not trimmed
addTriggerRecord_Untrimmed(h, record) == <<record>> \o h

\* addTriggerRecord: unshift, then splice(MAX_HISTORY_ENTRIES)
addTriggerRecord(h, record) ==
  LET h2 == <<record>> \o h
  IN IF Len(h2) > MAX_HISTORY_ENTRIES THEN SubSeq(h2, 1, MAX_HISTORY_ENTRIES) ELSE h2

\* getRecentHistory / getLastTrigger: null when there is no record
Null == [null |-> TRUE]

\* Array.prototype.slice(0, end)
Slice0(h, end) ==
  IF end < 0 THEN SubSeq(h, 1, Max(Len(h) + end, 0))
  ELSE SubSeq(h, 1, Min(end, Len(h)))

\* variant: the limit is ignored
getRecentHistory_All(h, limit) == h

\* getRecentHistory: history.slice(0, limit)
getRecentHistory(h, limit) == Slice0(h, limit)

\* getLastTrigger: history[0] or null
getLastTrigger(h) == IF Len(h) > 0 THEN h[1] ELSE Null

\* ------------------------------------------------------- cron installer
CRON_COMMENT_MARKER == "antigravity-usage-wakeup"

\* line.includes(word), line.startsWith(word), line.trim() non-empty
Includes(line, word) == \E j \in 1..Len(line) : line[j] = word

StartsWith(line, word) == Len(line) > 0 /\ line[1] = word

IsNotBlank(line) == Len(line) > 0

IsUnmarked(line) == ~Includes(line, CRON_COMMENT_MARKER)

\* loadCrontab: the output of crontab -l split at the line ends, the blank
\* lines (the piece after the last line end among them) filtered out
loadCrontab(file) == SelectSeq(Append(file, <<>>), IsNotBlank)

\* variant: nothing is removed
removeWakeupEntries_None(lines) == lines

\* removeWakeupEntries
removeWakeupEntries(lines) == SelectSeq(lines, IsUnmarked)

\* saveCrontab: the lines joined by line ends and one more line end, so no
\* lines give a table of one empty line
saveCrontab(lines) == IF lines = <<>> THEN <<<<>>>> ELSE lines

\* no installCronJob or uninstallCronJob call is in progress
NoCronCall == [pc |-> "idle", arg |-> "", lines |-> <<>>]

NoCronCalls == [fn \in {"installCronJob", "uninstallCronJob"} |-> NoCronCall]

InitCronCalls == cronBefore = <<>> /\ cronCalls = NoCronCalls /\ cronTrace = <<"", "", "">>

\* isCronSupported
isCronSupported == platform = "darwin" \/ platform = "linux"

\* the PATH line of getBinDirectories, the cron line of an expression
PathLine == <<"PATH=", "/usr/local/bin:/usr/bin:/bin:/opt/homebrew/bin">>

CronLine(cronExpression) ==
  <<cronExpression, "antigravity-usage wakeup trigger --scheduled", "#", CRON_COMMENT_MARKER>>

HasPath(lines) == \E j \in 1..Len(lines) : StartsWith(lines[j], "PATH=")

\* installCronJob: the lines it saves
InstalledLines(lines, cronExpression) ==
  LET filteredLines == removeWakeupEntries(lines)
      withPath == IF HasPath(filteredLines) THEN filteredLines
                  ELSE <<PathLine>> \o filteredLines
  IN Append(withPath, CronLine(cronExpression))

\* ------------------------------------------------------- reset detector
\* variant: the ends of the reset window are left out
isModelUnused_OpenWindow(model) ==
  IF model.remainingPercentage = Undefined THEN FALSE
  ELSE IF model.remainingPercentage < FULL_QUOTA_THRESHOLD THEN FALSE
  ELSE IF model.timeUntilResetMs = Undefined THEN FALSE
  ELSE IF model.timeUntilResetMs <= RESET_TIME_MIN_MS
          \/ model.timeUntilResetMs >= RESET_TIME_MAX_MS THEN FALSE
  ELSE TRUE

\* variant: a model counts as unused only above the threshold
isModelUnused_AboveThreshold(model) ==
  IF model.remainingPercentage = Undefined THEN FALSE
  ELSE IF model.remainingPercentage <= FULL_QUOTA_THRESHOLD THEN FALSE
  ELSE IF model.timeUntilResetMs = Undefined THEN FALSE
  ELSE IF model.timeUntilResetMs < RESET_TIME_MIN_MS
          \/ model.timeUntilResetMs > RESET_TIME_MAX_MS THEN FALSE
  ELSE TRUE

\* isModelUnused: remainingPercentage >= 99 and timeUntilResetMs in [4.5h, 5.5h]
isModelUnused(model) ==
  IF model.remainingPercentage = Undefined THEN FALSE
  ELSE IF model.remainingPercentage < FULL_QUOTA_THRESHOLD THEN FALSE
  ELSE IF model.timeUntilResetMs = Undefined THEN FALSE
  ELSE IF model.timeUntilResetMs < RESET_TIME_MIN_MS
          \/ model.timeUntilResetMs > RESET_TIME_MAX_MS THEN FALSE
  ELSE TRUE

\* the filter predicate of getAllValidAccounts
IsUsableStatus(status) == status = "valid" \/ status = "expired"

IsUsableAccount(email) == IsUsableStatus(accountStatus[email])

\* getAllValidAccounts: the directory filtered to valid or expired accounts
getAllValidAccounts == SelectSeq(Directory, IsUsableAccount)

\* resolveAccounts(selectedAccounts): the explicit selection filtered to known,
\* not invalid accounts; without a selection the active account if usable,
\* else the first usable account of the directory
hasAccount(email) == \E j \in 1..Len(Directory) : Directory[j] = email

\* variant: every known account of the selection is kept
IsSelectable_Known(email) == hasAccount(email)

IsSelectable(email) == hasAccount(email) /\ accountStatus[email] # "invalid"

\* variant: the fallback takes the active account whatever its status
resolveAccounts_ActiveUnchecked(selectedAccounts) ==
  IF selectedAccounts # NoSelection THEN SelectSeq(selectedAccounts, IsSelectable)
  ELSE IF activeEmail # UndefinedStr THEN <<activeEmail>>
  ELSE IF getAllValidAccounts # <<>> THEN <<Head(getAllValidAccounts)>>
  ELSE <<>>

resolveAccounts(selectedAccounts) ==
  IF selectedAccounts # NoSelection THEN SelectSeq(selectedAccounts, IsSelectable)
  ELSE IF activeEmail # UndefinedStr /\ IsUsableAccount(activeEmail) THEN <<activeEmail>>
  ELSE IF getAllValidAccounts # <<>> THEN <<Head(getAllValidAccounts)>>
  ELSE <<>>

\* the key under which the scan reads and writes reset-state for a model
\* (resetState[model.modelId], updateResetState(model.modelId, ...))
ScanKey(modelId) == modelId

\* variant: the cooldown lasts config.resetCooldownMinutes
InCooldown_ConfiguredMinutes(state, key, t) ==
  /\ key \in DOMAIN state
  /\ loadWakeupConfig[1].resetCooldownMinutes * 60 * 1000
       - (t - ParseISO(state[key].lastTriggeredTime)) > 0

\* the cooldown test of the scan: previousState exists and cooldownRemaining > 0
InCooldown(state, key, t) ==
  /\ key \in DOMAIN state
  /\ DEFAULT_COOLDOWN_MS - (t - ParseISO(state[key].lastTriggeredTime)) > 0

\* model.resetTime || new Date().toISOString()
ResetAtOf(model, t) == IF model.resetTime = NoISO THEN ToISOString(t) ELSE model.resetTime

RECURSIVE Scan_Reread(_, _, _, _, _)
\* variant: the cooldown test reads the reset-state as written so far
Scan_Reread(models, loaded, acc, t, tw) ==
  IF models = <<>> THEN acc
  ELSE LET model == Head(models)
           key == ScanKey(model.modelId)
       IN IF ~isModelUnused(model) THEN Scan_Reread(Tail(models), loaded, acc, t, tw)
          ELSE IF InCooldown(acc.state, key, t) THEN Scan_Reread(Tail(models), loaded, acc, t, tw)
          ELSE Scan_Reread(Tail(models), loaded,
                           [batch |-> Append(acc.batch, model.modelId),
                            state |-> updateResetState(acc.state, key, ResetAtOf(model, tw), tw)],
                           t, tw)

RECURSIVE Scan(_, _, _, _, _)
\* the scan loop of detectResetAndTrigger over the rest of snapshot.models:
\* loaded is the reset-state read once before the loop, acc the batch so far
\* and the reset-state document as written so far
Scan(models, loaded, acc, t, tw) ==
  IF models = <<>> THEN acc
  ELSE LET model == Head(models)
           key == ScanKey(model.modelId)
       IN IF ~isModelUnused(model) THEN Scan(Tail(models), loaded, acc, t, tw)
          ELSE IF InCooldown(loaded, key, t) THEN Scan(Tail(models), loaded, acc, t, tw)
          ELSE Scan(Tail(models), loaded,
                    [batch |-> Append(acc.batch, model.modelId),
                     state |-> updateResetState(acc.state, key, ResetAtOf(model, tw), tw)],
                    t, tw)

\* variant: only the first unused model is returned
findUnusedModels_First(models) ==
  LET unused == SelectSeq(models, isModelUnused)
  IN IF unused = <<>> THEN <<>> ELSE <<unused[1]>>

\* findUnusedModels
findUnusedModels(models) == SelectSeq(models, isModelUnused)

\* hasUnusedModels: snapshot.models.some(isModelUnused)
hasUnusedModels(models) == \E j \in 1..Len(models) : isModelUnused(models[j])

\* ------------------------------------------------------ trigger executor
\* customPrompt || DEFAULT_PROMPT
PromptOf(customPrompt) ==
  IF customPrompt \in {UndefinedStr, ""} THEN DEFAULT_PROMPT ELSE customPrompt

\* the results of the two fail-fast paths: one failed result per model
FailAll(models, error) ==
  [j \in 1..Len(models) |->
     [modelId |-> models[j], success |-> FALSE, durationMs |-> 0, error |-> error]]

\* variant: the token-validation failure is always reported generically
AuthErrorMessage_Generic(kind, email) == <<"Authentication failed for ", email>>

\* the errorMessage of the token-validation failure path
AuthErrorMessage(kind, email) ==
  IF kind = "detailed" THEN <<"TokenRefreshError.getDetailedMessage">>
  ELSE IF kind = "error" THEN <<"Token refresh failed: ", "Not logged in">>
  ELSE <<"Authentication failed for ", email>>

\* variant: the record keeps options.customPrompt as given
MkRecord_GivenPrompt(result, opts, t) ==
  [timestamp |-> ToISOString(t),
   success |-> result.success,
   triggerType |-> opts.triggerType,
   triggerSource |-> opts.triggerSource,
   models |-> <<result.modelId>>,
   accountEmail |-> opts.accountEmail,
   durationMs |-> result.durationMs,
   prompt |-> opts.customPrompt,
   error |-> result.error]

\* the TriggerRecord recordResults builds for one result
MkRecord(result, opts, t) ==
  [timestamp |-> ToISOString(t),
   success |-> result.success,
   triggerType |-> opts.triggerType,
   triggerSource |-> opts.triggerSource,
   models |-> <<result.modelId>>,
   accountEmail |-> opts.accountEmail,
   durationMs |-> result.durationMs,
   prompt |-> PromptOf(opts.customPrompt),
   error |-> result.error]

RECURSIVE recordResults(_, _, _, _)
\* recordResults: addTriggerRecord for each result, in results order
recordResults(h, results, opts, t) ==
  IF results = <<>> THEN h
  ELSE recordResults(addTriggerRecord(h, MkRecord(Head(results), opts, t)),
                     Tail(results), opts, t)

\* variant: the batch is the whole rest of the list
BatchLen_Uncapped(models, i) == Len(models) - i

\* the size of the batch models.slice(i, i + MAX_CONCURRENT_REQUESTS)
BatchLen(models, i) == Min(i + MAX_CONCURRENT_REQUESTS, Len(models)) - i

\* the step of the batch loop: i += MAX_CONCURRENT_REQUESTS
NextBatchStart(i) == i + MAX_CONCURRENT_REQUESTS

\* variant: only a rejected request counts as a failure
ResultOf_RejectionsOnly(req, modelId) ==
  [modelId |-> modelId, success |-> req.st # "failed",
   durationMs |-> req.durationMs, error |-> req.error]

\* the ModelTriggerResult of a settled triggerSingleModel promise
ResultOf(req, modelId) ==
  [modelId |-> modelId, success |-> req.st = "ok",
   durationMs |-> req.durationMs, error |-> req.error]

\* variant: results.some(r => r.success)
AllSuccess_Some(results) == \E j \in 1..Len(results) : results[j].success

\* results.every(r => r.success)
AllSuccess(results) == \A j \in 1..Len(results) : results[j].success

NoOpts == [models |-> <<>>, accountEmail |-> "", triggerType |-> "", triggerSource |-> "",
           customPrompt |-> UndefinedStr, maxOutputTokens |-> Undefined]
NoRet == [success |-> FALSE, results |-> <<>>]
NoOutcomes == [k \in {} |-> "pending"]

\* executeTrigger returns {success, results} after recordResults; a failing
\* write of history.json (writeJsonFile rethrows) makes recordResults, and
\* with it executeTrigger, throw at its first record
Finish(results, opts, diskOk, t) ==
  /\ ei' = 0 /\ ereq' = <<>> /\ estart' = 0 /\ eresults' = <<>>
  /\ IF diskOk
     THEN /\ history' = recordResults(history, results, opts, t)
          /\ epc' = "returned"
          /\ eret' = [success |-> AllSuccess(results), results |-> results]
     ELSE /\ history' = history
          /\ epc' = "threw"
          /\ eret' = NoRet

\* batch.map(modelId => triggerSingleModel(...)): every request of the batch
\* starting at i is issued, each raced against its own timer
DispatchAfter(log, opts, call, i, t) ==
  /\ epc' = "batch"
  /\ ei' = i
  /\ estart' = t
  /\ ereq' = [j \in 1..BatchLen(opts.models, i) |->
               [st |-> "pending", durationMs |-> 0, error |-> NoError]]
  /\ inflight' = inflight \cup {<<call, i + j>> : j \in 1..BatchLen(opts.models, i)}
  /\ racing' = racing \cup {<<call, i + j>> : j \in 1..BatchLen(opts.models, i)}
  /\ eoutcome' = [k \in DOMAIN eoutcome \cup {i + j : j \in 1..BatchLen(opts.models, i)} |->
                    IF k \in DOMAIN eoutcome THEN eoutcome[k] ELSE "pending"]
  /\ elog' = log \o [j \in 1..BatchLen(opts.models, i) |->
                      <<"generateContent", opts.models[i + j]>>]

Dispatch(opts, call, i, t) == DispatchAfter(elog, opts, call, i, t)

\* variant: an empty list is treated like any other
IsNoOp_Never(models) == FALSE

\* models.length === 0: nothing to trigger
IsNoOp(models) == Len(models) = 0

\* the synchronous prefix of executeTrigger(opts), up to its first await
ExecuteTriggerBegin(opts, cred, diskOk, t) ==
  /\ eopts' = opts
  /\ ncalls' = ncalls + 1
  /\ inflight' = inflight /\ racing' = racing /\ eoutcome' = NoOutcomes
  /\ elog' = IF IsNoOp(opts.models) THEN <<>>
             ELSE IF cred = "throws" THEN <<<<"getTokenManagerForAccount", "throws">>>>
             ELSE <<<<"getTokenManagerForAccount", "ok">>, <<"getValidAccessToken", "pending">>>>
  /\ IF IsNoOp(opts.models)
     THEN /\ epc' = "returned"
          /\ eret' = [success |-> TRUE, results |-> <<>>]
          /\ ei' = 0 /\ ereq' = <<>> /\ estart' = 0 /\ eresults' = <<>>
          /\ history' = history
     ELSE IF cred = "throws"
     THEN Finish(FailAll(opts.models, <<"Failed to get credentials for ", opts.accountEmail>>),
                 opts, diskOk, t)
     ELSE /\ epc' = "token"
          /\ eret' = NoRet
          /\ ei' = 0 /\ ereq' = <<>> /\ estart' = 0 /\ eresults' = <<>>
          /\ history' = history

\* await tokenManager.getValidAccessToken() settles
TokenChecked(outcome, diskOk) ==
  /\ epc = "token"
  /\ UNCHANGED <<docs, qvars, resetState, now, dvars, eopts, ncalls, inflight, racing, eoutcome>>
  /\ elog' = [elog EXCEPT ![Len(elog)] = <<"getValidAccessToken", outcome>>]
               \o (IF outcome = "ok" THEN <<<<"resolveProjectId", "pending">>>> ELSE <<>>)
  /\ IF outcome = "ok"
     THEN /\ epc' = "project"
          /\ UNCHANGED <<history, ei, eresults, ereq, estart, eret>>
     ELSE Finish(FailAll(eopts.models, AuthErrorMessage(outcome, eopts.accountEmail)),
                 eopts, diskOk, now)

\* variant: without a project identifier every model fails
ProjectResolved_Fatal(outcome) ==
  /\ epc = "project"
  /\ UNCHANGED <<docs, qvars, resetState, now, dvars, eopts, ncalls>>
  /\ IF outcome = "id"
     THEN /\ DispatchAfter([elog EXCEPT ![Len(elog)] = <<"resolveProjectId", outcome>>],
                           eopts, ncalls, 0, now)
          /\ UNCHANGED <<history, eresults, eret>>
     ELSE /\ elog' = [elog EXCEPT ![Len(elog)] = <<"resolveProjectId", outcome>>]
          /\ Finish(FailAll(eopts.models, <<"Could not resolve project ID">>), eopts, TRUE,
                    now)
          /\ UNCHANGED <<inflight, racing, eoutcome>>

\* await client.resolveProjectId() settles: an identifier ("id"), none
\* ("none") or a throw that is caught ("throws"); the first batch is
\* dispatched
ProjectResolved(outcome) ==
  /\ epc = "project"
  /\ UNCHANGED <<docs, qvars, resetState, history, now, dvars, eopts, ncalls, eresults, eret>>
  /\ DispatchAfter([elog EXCEPT ![Len(elog)] = <<"resolveProjectId", outcome>>],
                   eopts, ncalls, 0, now)

\* client.generateContent wins the race of request j of the batch: a response
\* (ok) or a rejection (failed)
RequestSettles(j, outcome) ==
  /\ epc = "batch"
  /\ j \in 1..Len(ereq)
  /\ ereq[j].st = "pending"
  /\ now' = Max(now, estart + Latency)
  /\ ereq' = [ereq EXCEPT ![j] =
               [st |-> outcome, durationMs |-> now' - estart,
                error |-> IF outcome = "ok" THEN NoError ELSE <<"API request failed">>]]
  /\ inflight' = inflight \ {<<ncalls, ei + j>>}
  /\ racing' = racing \ {<<ncalls, ei + j>>}
  /\ eoutcome' = [eoutcome EXCEPT ![ei + j] = outcome]
  /\ UNCHANGED <<elog, docs, qvars, resetState, history, dvars, epc, eopts, ei, eresults, estart,
                 eret, ncalls>>

\* variant: when the timer of request j fires the request is issued again
RequestTimesOut_Retried(j) ==
  /\ epc = "batch"
  /\ "timeout" \in faults
  /\ j \in 1..Len(ereq)
  /\ ereq[j].st = "pending"
  /\ Len(elog) < 3 * MAX_CONCURRENT_REQUESTS
  /\ now' = Max(now, estart + REQUEST_TIMEOUT_MS)
  /\ elog' = Append(elog, <<"generateContent", eopts.models[ei + j]>>)
  /\ UNCHANGED <<docs, qvars, resetState, history, dvars, epc, eopts, ei, eresults, ereq,
                 estart, eret, ncalls, inflight, racing, eoutcome>>

\* the timer of request j wins the race: the generateContent call goes on
RequestTimesOut(j) ==
  /\ epc = "batch"
  /\ "timeout" \in faults
  /\ j \in 1..Len(ereq)
  /\ ereq[j].st = "pending"
  /\ now' = Max(now, estart + REQUEST_TIMEOUT_MS)
  /\ ereq' = [ereq EXCEPT ![j] =
               [st |-> "timeout", durationMs |-> now' - estart,
                error |-> <<"Request timed out">>]]
  /\ racing' = racing \ {<<ncalls, ei + j>>}
  /\ eoutcome' = [eoutcome EXCEPT ![ei + j] = "timeout"]
  /\ UNCHANGED <<elog, docs, qvars, resetState, history, dvars, epc, eopts, ei, eresults, estart,
                 eret, ncalls, inflight>>

\* a generateContent call that lost its race completes or fails
AbandonedCompletes(id) ==
  /\ id \in inflight \ racing
  /\ inflight' = inflight \ {id}
  /\ UNCHANGED <<docs, qvars, resetState, history, now, dvars, epc, eopts, ei, eresults, ereq,
                 estart, eret, ncalls, racing, eoutcome, elog>>

\* Promise.all of the batch resolves: results.push(...batchResults), then the
\* next batch is dispatched, or recordResults and return
BatchSettled(diskOk) ==
  /\ epc = "batch"
  /\ \A j \in 1..Len(ereq) : ereq[j].st # "pending"
  /\ UNCHANGED <<docs, qvars, resetState, now, dvars, eopts, ncalls>>
  /\ LET results == eresults \o [j \in 1..Len(ereq) |-> ResultOf(ereq[j], eopts.models[ei + j])]
     IN IF NextBatchStart(ei) < Len(eopts.models)
        THEN /\ eresults' = results
             /\ Dispatch(eopts, ncalls, NextBatchStart(ei), now)
             /\ UNCHANGED <<history, eret>>
        ELSE /\ Finish(results, eopts, diskOk, now)
             /\ UNCHANGED <<inflight, racing, eoutcome, elog>>

\* ------------------------------------------------- reset orchestrator
NotTriggered == [triggered |-> FALSE, triggeredModels |-> <<>>]

\* variant: the fan-out asks for the configured models
DetectOpts_ConfiguredModels(accountEmail, batch, cfg) ==
  [models |-> cfg.selectedModels, accountEmail |-> accountEmail,
   triggerType |-> "auto", triggerSource |-> "quota_reset",
   customPrompt |-> cfg.customPrompt, maxOutputTokens |-> cfg.maxOutputTokens]

\* the options of the executeTrigger call of the fan-out
DetectOpts(accountEmail, batch, cfg) ==
  [models |-> batch, accountEmail |-> accountEmail,
   triggerType |-> "auto", triggerSource |-> "quota_reset",
   customPrompt |-> cfg.customPrompt, maxOutputTokens |-> cfg.maxOutputTokens]

\* variant: the loop goes on as soon as the call has been started
AwaitSettled_NotAwaited == epc # "idle"

\* await executeTrigger(...): the caller resumes once the call has returned
\* or thrown
AwaitSettled == epc \in {"returned", "threw"}

\* variant: triggered reports whether some account succeeded
FanoutResult_SomeSuccess(batch, successCount) ==
  [triggered |-> successCount > 0, triggeredModels |-> batch]

\* the return value after the fan-out
FanoutResult(batch, successCount) == [triggered |-> TRUE, triggeredModels |-> batch]

\* variant: the fan-out goes over the accounts the configuration selects
FanoutAccounts_Configured == resolveAccounts(loadWakeupConfig[1].selectedAccounts)

\* the accounts the fan-out loop iterates over
FanoutAccounts == getAllValidAccounts

\* a snapshot model as the quota service delivers it at time t
MkModel(shape, t) ==
  [modelId |-> shape[1], remainingPercentage |-> shape[2], timeUntilResetMs |-> shape[3],
   resetTime |-> IF shape[4] /\ shape[3] # Undefined THEN ToISOString(t + shape[3])
                 ELSE NoISO]

MkSnapshot(shapes, t) == [j \in 1..Len(shapes) |-> MkModel(shapes[j], t)]

\* the number of executeTrigger calls detectResetAndTrigger(snapshot) makes at t
CallsNeeded(snapshot, t) ==
  IF loadWakeupConfig = <<>> THEN 0
  ELSE IF ~loadWakeupConfig[1].enabled THEN 0
  ELSE IF Scan(snapshot, resetState, [batch |-> <<>>, state |-> resetState], t, t).batch = <<>>
  THEN 0
  ELSE Len(FanoutAccounts)

\* variant: the scan has written its entries before the early return
DetectReturnsEarly_Scanned(pc) ==
  /\ dpc' = pc
  /\ dresult' = NotTriggered
  /\ dbatch' = <<>> /\ dk' = 0 /\ dsuccess' = 0 /\ dcalls' = <<>>
  /\ resetState' = Scan(dsnapshot', resetState, [batch |-> <<>>, state |-> resetState],
                        now', now').state
  /\ UNCHANGED <<history, triggerLog, evars>>

\* detectResetAndTrigger returns without having started a fan-out
DetectReturnsEarly(pc) ==
  /\ dpc' = pc
  /\ dresult' = NotTriggered
  /\ dbatch' = <<>> /\ dk' = 0 /\ dsuccess' = 0 /\ dcalls' = <<>>
  /\ UNCHANGED <<resetState, history, triggerLog, evars>>

\* detectResetAndTrigger(snapshot), from its call to its first await: config
\* and account checks, the scan with its reset-state writes, and the start of
\* the first executeTrigger call.  dt is the time since the previous
\* invocation started; stateDiskOk, cred and diskOk are what the disk and the
\* credential store do.  An invocation is one run of the command line tool:
\* the previous run has ended, with every call it left behind.
DetectResetAndTrigger(shapes, dt, stateDiskOk, cred, diskOk) ==
  LET t == Max(now, dnow + dt)
      snapshot == MkSnapshot(shapes, t)
      cfg == loadWakeupConfig
      accounts == FanoutAccounts
      scan == Scan(snapshot, resetState, [batch |-> <<>>, state |-> resetState], t, t)
  IN /\ dpc # "fanout" /\ epc = "idle"
     /\ inflight = {}
     /\ runs < MaxRuns
     /\ ncalls + CallsNeeded(snapshot, t) <= MaxCalls
     /\ runs' = runs + 1
     /\ now' = t
     /\ dsnapshot' = snapshot
     /\ dconfig' = cfg
     /\ dnow' = t
     /\ dloaded' = resetState
     /\ UNCHANGED <<docs, qvars>>
     /\ IF cfg = <<>> \/ ~cfg[1].enabled
        THEN /\ DetectReturnsEarly("returned")
             /\ daccounts' = <<>>
        ELSE IF Len(accounts) = 0
        THEN /\ DetectReturnsEarly("returned")
             /\ daccounts' = accounts
        ELSE /\ daccounts' = accounts
             /\ IF Len(scan.batch) = 0 THEN DetectReturnsEarly("returned")
                ELSE IF ~stateDiskOk THEN DetectReturnsEarly("threw")
                ELSE /\ resetState' = scan.state
                     /\ triggerLog' = [m \in DOMAIN triggerLog |->
                           IF \E j \in 1..Len(scan.batch) : scan.batch[j] = m
                           THEN Append(triggerLog[m], t) ELSE triggerLog[m]]
                     /\ dbatch' = scan.batch
                     /\ dpc' = "fanout"
                     /\ dk' = 1
                     /\ dsuccess' = 0
                     /\ dresult' = NotTriggered
                     /\ dcalls' = <<DetectOpts(accounts[1], scan.batch, cfg[1])>>
                     /\ ExecuteTriggerBegin(DetectOpts(accounts[1], scan.batch, cfg[1]),
                                            cred, diskOk, t)

\* the await of the fan-out loop resumes with the result (or the exception) of
\* the call for account dk: the next account's call starts, or the function
\* returns {triggered: true, triggeredModels}
DetectResume(cred, diskOk) ==
  /\ dpc = "fanout"
  /\ AwaitSettled
  /\ dsuccess' = IF epc = "returned"
                    /\ \E j \in 1..Len(eret.results) : eret.results[j].success
                 THEN dsuccess + 1 ELSE dsuccess
  /\ UNCHANGED <<docs, qvars, resetState, now, runs, dsnapshot, dconfig, dloaded, dnow, daccounts,
                 dbatch, triggerLog>>
  /\ IF dk < Len(daccounts)
     THEN /\ dk' = dk + 1
          /\ dcalls' = Append(dcalls, DetectOpts(daccounts[dk + 1], dbatch, dconfig[1]))
          /\ UNCHANGED <<dpc, dresult>>
          /\ ExecuteTriggerBegin(DetectOpts(daccounts[dk + 1], dbatch, dconfig[1]),
                                 cred, diskOk, now)
     ELSE /\ dpc' = "returned"
          /\ dresult' = FanoutResult(dbatch, dsuccess')
          /\ epc' = "idle" /\ eopts' = NoOpts /\ eret' = NoRet
          /\ UNCHANGED <<dk, dcalls, history, ei, eresults, ereq, estart, ncalls, inflight,
                         racing, eoutcome, elog>>

\* clearResetState: saveResetState({})
ClearResetState ==
  /\ dpc # "fanout" /\ epc = "idle"
  /\ resetState # <<>>
  /\ resetState' = <<>>
  /\ triggerLog' = [m \in DOMAIN triggerLog |-> <<>>]
  /\ UNCHANGED <<docs, qvars, history, now, runs, dpc, dsnapshot, dconfig, dloaded, dnow, daccounts,
                 dbatch, dk, dsuccess, dresult, dcalls, evars>>

\* updateResetState(modelKey, resetAt), called on its own
UpdateResetStateCalled(modelKey, resetAt) ==
  /\ dpc # "fanout" /\ epc = "idle"
  /\ resetState' = updateResetState(resetState, modelKey, resetAt, now)
  /\ resetState' # resetState
  /\ probe' = [fn |-> "updateResetState", input |-> <<modelKey, resetAt>>, result |-> <<>>]
  /\ UNCHANGED <<docs, appended, history, now, runs, dpc, dsnapshot, dconfig, dloaded, dnow, daccounts,
                 dbatch, dk, dsuccess, dresult, dcalls, triggerLog, evars>>

\* the mark in triggerLog of a reset-state document written as a whole
Replaced == -1

\* saveResetState(state), called on its own: the document is replaced
SaveResetStateCalled(state) ==
  /\ dpc # "fanout" /\ epc = "idle"
  /\ resetState # state
  /\ resetState' = state
  /\ triggerLog' = [m \in DOMAIN triggerLog |->
                      IF triggerLog[m] = <<>> \/ triggerLog[m][Len(triggerLog[m])] = Replaced
                      THEN triggerLog[m] ELSE Append(triggerLog[m], Replaced)]
  /\ probe' = [fn |-> "saveResetState", input |-> state, result |-> <<>>]
  /\ UNCHANGED <<docs, appended, history, now, runs, dpc, dsnapshot, dconfig, dloaded, dnow, daccounts,
                 dbatch, dk, dsuccess, dresult, dcalls, evars>>

\* ------------------------------------------------------------- inputs
T0 == 24 * HOUR

\* the arguments of the direct reset-state writes
ResetKeys == {"m1"}

SavedResetStates ==
  {[k \in {"m2"} |-> [lastResetAt |-> ToISOString(T0 + 5 * HOUR),
                      lastTriggeredTime |-> ToISOString(T0 - 2 * HOUR)]]}

MkConfig(e, sm, sa, p, c) ==
  <<[enabled |-> e, selectedModels |-> sm, selectedAccounts |-> sa, customPrompt |-> p,
     maxOutputTokens |-> 1, resetCooldownMinutes |-> c]>>

PoolMapping == [m \in {"m1", "m2"} |-> "pool"]

\* installations: <<config document, model mapping, active account>>
Installations ==
  {<<<<>>, <<>>, "a@x">>,
   <<MkConfig(FALSE, <<"m1", "m2">>, NoSelection, UndefinedStr, 10), PoolMapping, "b@x">>,
   <<MkConfig(TRUE, <<"m1", "m2">>, NoSelection, UndefinedStr, 10), <<>>, "a@x">>,
   <<MkConfig(TRUE, <<"m2">>, <<"b@x">>, "wake up", 120), PoolMapping, "b@x">>}

\* the fault profiles of the direct executeTrigger calls
TriggerFaultProfiles ==
  {{"cred", "auth", "login", "request", "disk"}, {"request", "timeout"},
   {"project", "request"}}

\* the fault profiles of the reset-detection behaviours
FaultProfiles == {{"cred", "auth"}, {"request"}, {"timeout"}, {"disk"}}

Statuses == {[e \in Emails |-> IF e = "a@x" THEN sa ELSE sb] :
               sa \in {"valid", "invalid"}, sb \in {"expired", "invalid"}}

\* snapshot models: <<modelId, remainingPercentage, timeUntilResetMs, has resetTime>>
SnapshotShapes ==
  {<<<<"m1", 100, 5 * HOUR, TRUE>>, <<"m2", 99, RESET_TIME_MAX_MS, FALSE>>>>,
   <<<<"m2", 98, 5 * HOUR, TRUE>>, <<"m1", 99, RESET_TIME_MIN_MS, TRUE>>>>,
   <<<<"m1", 100, RESET_TIME_MAX_MS + 1, TRUE>>, <<"m2", 100, 5 * HOUR, TRUE>>>>,
   <<<<"m1", Undefined, Undefined, FALSE>>, <<"m2", 100, RESET_TIME_MIN_MS - 1, TRUE>>>>}

\* the time from the start of one detectResetAndTrigger invocation to the
\* start of the next
ElapsedChoices ==
  IF runs = 0 THEN {0} ELSE {DEFAULT_COOLDOWN_MS - 1, DEFAULT_COOLDOWN_MS}

\* what the environment may do, given the faults of this behaviour:
\* "cred" the credential store cannot be read, "auth" the token refresh fails,
\* "login" the account has no tokens or the token check fails otherwise,
\* "request" a generation request is rejected, "timeout" a generation request
\* does not answer in time, "disk" a write of a wake-up document fails,
\* "project" the project resolution gives no identifier or throws
AllFaults == {"cred", "auth", "login", "request", "timeout", "disk", "project"}
CredOutcomes == {"ok"} \cup (IF "cred" \in faults THEN {"throws"} ELSE {})
TokenOutcomes ==
  {"ok"} \cup (IF "auth" \in faults THEN {"detailed"} ELSE {})
         \cup (IF "login" \in faults THEN {"error", "other"} ELSE {})
RequestOutcomes == {"ok"} \cup (IF "request" \in faults THEN {"failed"} ELSE {})
ProjectOutcomes == {"id"} \cup (IF "project" \in faults THEN {"none", "throws"} ELSE {})
DiskOutcomes == {TRUE} \cup (IF "disk" \in faults THEN {FALSE} ELSE {})

\* the options of direct executeTrigger calls (wakeup command, testTrigger)
TriggerModelNames == <<"m1", "m2", "m3", "m4", "m5", "m6", "m7", "m8", "m9">>
TriggerModelLists ==
  {<<>>, <<"m1">>, SubSeq(TriggerModelNames, 1, Min(MaxModels, Len(TriggerModelNames)))}
TriggerOptions ==
  {[models |-> ms, accountEmail |-> "a@x", triggerType |-> ty[1], triggerSource |-> ty[2],
    customPrompt |-> ty[3], maxOutputTokens |-> 1] :
     ms \in TriggerModelLists,
     ty \in {<<"manual", "manual", UndefinedStr>>, <<"auto", "scheduled", "wake up">>}}

\* executeTrigger(opts) is called directly, dt after the previous event
CallExecuteTrigger(opts, dt, cred, diskOk) ==
  /\ dpc = "idle" /\ epc = "idle"
  /\ ncalls < MaxCalls
  /\ Len(history) + Len(opts.models) <= MaxModels
  /\ now' = now + dt
  /\ UNCHANGED <<docs, qvars, resetState, dvars>>
  /\ ExecuteTriggerBegin(opts, cred, diskOk, now + dt)

\* the caller of a direct executeTrigger call takes its result or exception
ExecuteTriggerReturns ==
  /\ dpc = "idle"
  /\ epc \in {"returned", "threw"}
  /\ epc' = "idle" /\ eopts' = NoOpts /\ eret' = NoRet
  /\ UNCHANGED <<docs, qvars, resetState, history, now, dvars, ei, eresults, ereq, estart, ncalls,
                 inflight, racing, eoutcome, elog>>

\* --------------------------------------------------------- specification
InitExecutor ==
  /\ epc = "idle" /\ eopts = NoOpts /\ ei = 0 /\ eresults = <<>> /\ ereq = <<>>
  /\ estart = 0 /\ eret = NoRet /\ ncalls = 0 /\ inflight = {} /\ racing = {}
  /\ eoutcome = NoOutcomes /\ elog = <<>>

\* no read-only operation has been called, no record appended
NoProbe == [fn |-> "", input |-> <<>>, result |-> <<>>]

\* fetchQuota has not been called
NoQuota == [ok |-> FALSE, method |-> "", error |-> ""]

InitFetch ==
  /\ fpc = "idle" /\ fcount = 0 /\ fmethod = "" /\ fprocess = Null /\ fports = <<>> /\ fcalls = <<>>
  /\ fresult = NoQuota

\* a LoadCodeAssistResponse: cloudaicompanionProject is <<>> (absent),
\* <<"string", id>> or <<"object", id>>; an absent id is UndefinedStr
NoResponse ==
  [cloudaicompanionProject |-> <<>>, allowedTiers |-> <<>>, paidTier |-> UndefinedStr,
   currentTier |-> UndefinedStr]

\* resolveProjectId has not been called
InitProject ==
  /\ ppc = "idle" /\ projectId = UndefinedStr /\ pcached = UndefinedStr
  /\ pload = NoResponse /\ ptier = UndefinedStr /\ pi = 0 /\ plog = <<>>
  /\ presult = UndefinedStr

\* the token manager of an account that is not logged in, before any call
NoTokenResult == [ok |-> FALSE, value |-> "", error |-> "", isRetryable |-> FALSE]

InitTokenCall == tpc = "idle" /\ tcall = "" /\ tattempt = 0 /\ tlog = <<>> /\ tresult = NoTokenResult

\* no fan-out: no executeTrigger call of the invocation is running
NoFanout ==
  [accounts |-> <<>>, cfg |-> <<>>, k |-> 0, success |-> 0, pc |-> "idle", opts |-> NoOpts,
   bi |-> 0, start |-> 0, req |-> <<>>, results |-> <<>>, ret |-> NoRet]

InitOverlap ==
  /\ ofan = <<NoFanout, NoFanout>>
  /\ opc = <<"idle", "idle">> /\ osnapshot = <<<<>>, <<>>>> /\ obatch = <<<<>>, <<>>>>
  /\ ostart = <<0, 0>> /\ oduring = <<{}, {}>> /\ orewrites = 0
  /\ oresult = <<[triggered |-> FALSE, triggeredModels |-> <<>>],
                 [triggered |-> FALSE, triggeredModels |-> <<>>]>>

\* fetchSingleAccountQuota has not been called
NoSingle == [account |-> UndefinedStr, original |-> UndefinedStr, switched |-> FALSE,
             method |-> "", pc |-> "idle", stage |-> ""]

\* no late timer has fired; no quota is being fetched
InitAccountsFetch ==
  /\ instance = UndefinedStr /\ acalls = <<>> /\ lpc = "idle" /\ lk = 0
  /\ lactive = UndefinedStr /\ lresults = <<>> /\ scall = NoSingle
  /\ loptions = [method |-> "auto", refresh |-> FALSE]

InitMore == InitOverlap /\ efired = {} /\ InitAccountsFetch

InitToken == tokens = <<>> /\ InitTokenCall /\ InitMore

\* an empty crontab on a supported platform
InitHost == crontab = <<>> /\ InitCronCalls /\ platform = "linux" /\ InitFetch /\ InitProject /\ InitToken

InitQueries == probe = NoProbe /\ appended = <<>> /\ InitHost

InitDetector ==
  /\ runs = 0 /\ dpc = "idle" /\ dsnapshot = <<>> /\ dconfig = <<>> /\ dloaded = <<>>
  /\ dnow = T0 /\ daccounts = <<>> /\ dbatch = <<>> /\ dk = 0 /\ dsuccess = 0
  /\ dresult = NotTriggered /\ dcalls = <<>>
  /\ triggerLog = [m \in ModelIds |-> <<>>]

Init ==
  /\ \E p \in Installations :
       config = p[1] /\ modelMapping = p[2] /\ activeEmail = p[3]
  /\ accountStatus \in Statuses
  /\ faults \in FaultProfiles
  /\ resetState = <<>>
  /\ history = <<>>
  /\ now = T0
  /\ InitDetector
  /\ InitExecutor
  /\ InitQueries

\* the steps of a running executeTrigger call
ExecutorNext ==
  \/ \E outcome \in TokenOutcomes, diskOk \in DiskOutcomes : TokenChecked(outcome, diskOk)
  \/ \E outcome \in ProjectOutcomes : ProjectResolved(outcome)
  \/ \E j \in 1..MAX_CONCURRENT_REQUESTS, outcome \in RequestOutcomes :
        RequestSettles(j, outcome)
  \/ \E j \in 1..MAX_CONCURRENT_REQUESTS : RequestTimesOut(j)
  \/ \E id \in inflight : AbandonedCompletes(id)
  \/ \E diskOk \in DiskOutcomes : BatchSettled(diskOk)

Next ==
  \/ \E shapes \in SnapshotShapes, dt \in ElapsedChoices, stateDiskOk \in DiskOutcomes,
        cred \in CredOutcomes, diskOk \in DiskOutcomes :
        DetectResetAndTrigger(shapes, dt, stateDiskOk, cred, diskOk)
  \/ \E cred \in CredOutcomes, diskOk \in DiskOutcomes : DetectResume(cred, diskOk)
  \/ ClearResetState
  \/ \E modelKey \in ResetKeys : UpdateResetStateCalled(modelKey, ToISOString(now + 5 * HOUR))
  \/ \E state \in SavedResetStates : SaveResetStateCalled(state)
  \/ ExecutorNext

NextTrigger ==
  \/ \E opts \in TriggerOptions, dt \in {Latency}, cred \in CredOutcomes,
        diskOk \in DiskOutcomes : CallExecuteTrigger(opts, dt, cred, diskOk)
  \/ ExecuteTriggerReturns
  \/ ExecutorNext

Spec == Init /\ [][Next]_vars

\* direct executeTrigger calls, under every fault
InitTrigger ==
  /\ config = <<>> /\ modelMapping = <<>> /\ activeEmail = "a@x"
  /\ accountStatus = [e \in Emails |-> "valid"]
  /\ faults \in TriggerFaultProfiles
  /\ resetState = <<>>
  /\ history = <<>>
  /\ now = T0
  /\ InitDetector
  /\ InitExecutor
  /\ InitQueries

SpecTrigger == InitTrigger /\ [][NextTrigger]_vars

\* the requests of the running call whose race the generateContent call won,
\* by a response or a rejection, and whose timer is still pending
PendingTimers ==
  {<<ncalls, k>> : k \in {i \in DOMAIN eoutcome : eoutcome[i] \in {"ok", "failed"}}} \ efired

\* variant: a late timer makes the request a failure
LateTimerFires_Rejects(id) ==
  /\ id \in PendingTimers
  /\ efired' = efired \cup {id}
  /\ eoutcome' = [eoutcome EXCEPT ![id[2]] = "timeout"]
  /\ UNCHANGED <<config, modelMapping, accountStatus, activeEmail, faults, host, fvars, pvars,
                 tvars, ovars, avars, qvars, resetState, history, now, dvars, epc, eopts, ei,
                 eresults, ereq, estart, eret, ncalls, inflight, racing, elog>>

\* the timer of a request that was answered fires: the rejection of its
\* promise goes to the race that is already settled
LateTimerFires(id) ==
  /\ id \in PendingTimers
  /\ efired' = efired \cup {id}
  /\ UNCHANGED <<config, modelMapping, accountStatus, activeEmail, faults, host, fvars, pvars,
                 tvars, ovars, avars, qvars, resetState, history, now, dvars, evars>>

\* direct calls with one and two models, whose requests are answered,
\* rejected or time out
RaceOptions ==
  {[models |-> ms, accountEmail |-> "a@x", triggerType |-> "manual", triggerSource |-> "manual",
    customPrompt |-> UndefinedStr, maxOutputTokens |-> 1] : ms \in {<<"m1">>, <<"m1", "m2">>}}

InitRace ==
  /\ config = <<>> /\ modelMapping = <<>> /\ activeEmail = "a@x"
  /\ accountStatus = [e \in Emails |-> "valid"]
  /\ faults = {"request", "timeout"}
  /\ resetState = <<>>
  /\ history = <<>>
  /\ now = T0
  /\ InitDetector
  /\ InitExecutor
  /\ InitQueries

NextRace ==
  \/ \E opts \in RaceOptions, cred \in CredOutcomes, diskOk \in DiskOutcomes :
        CallExecuteTrigger(opts, Latency, cred, diskOk)
  \/ ExecuteTriggerReturns
  \/ ExecutorNext
  \/ \E id \in PendingTimers : LateTimerFires(id)

SpecRace == InitRace /\ [][NextRace]_vars

\* the options testTrigger passes to executeTrigger
TestOptions(modelId, accountEmail, prompt) ==
  [models |-> <<modelId>>, accountEmail |-> accountEmail, triggerType |-> "manual",
   triggerSource |-> "manual", customPrompt |-> prompt, maxOutputTokens |-> Undefined]

\* the result testTrigger makes up when executeTrigger returned none
NoResult(modelId) ==
  [modelId |-> modelId, success |-> FALSE, durationMs |-> 0, error |-> <<"No result returned">>]

\* variant: the made-up result is returned whatever executeTrigger returned
FirstResultOr_Fallback(results, fallback) == fallback

\* result.results[0] || fallback
FirstResultOr(results, fallback) == IF Len(results) > 0 THEN results[1] ELSE fallback

\* testTrigger rejects when executeTrigger does
Rejected == [rejected |-> TRUE]

\* testTrigger(modelId, accountEmail, prompt) is called, dt after the previous
\* event: it runs up to the first await of its executeTrigger call
TestTrigger(modelId, accountEmail, prompt, dt, cred, diskOk) ==
  /\ dpc = "idle" /\ epc = "idle"
  /\ ncalls < MaxCalls
  /\ Len(history) + 1 <= MaxModels
  /\ now' = now + dt
  /\ probe' = [fn |-> "testTrigger", input |-> <<modelId, accountEmail, prompt>>, result |-> <<>>]
  /\ UNCHANGED <<docs, appended, resetState, dvars>>
  /\ ExecuteTriggerBegin(TestOptions(modelId, accountEmail, prompt), cred, diskOk, now + dt)

\* the await of testTrigger resumes: it returns the first result, or rejects
TestTriggerReturns ==
  /\ dpc = "idle"
  /\ epc \in {"returned", "threw"}
  /\ probe.fn = "testTrigger" /\ probe.result = <<>>
  /\ probe' = [probe EXCEPT !.result =
                 IF epc = "threw" THEN <<Rejected>>
                 ELSE <<FirstResultOr(eret.results, NoResult(probe.input[1]))>>]
  /\ epc' = "idle" /\ eopts' = NoOpts /\ eret' = NoRet
  /\ UNCHANGED <<docs, appended, resetState, history, now, dvars, ei, eresults, ereq, estart,
                 ncalls, inflight, racing, eoutcome, elog>>

\* testTrigger calls, under every fault
NextTest ==
  \/ \E modelId \in {"m1", "m9"}, prompt \in {UndefinedStr, "ping"}, cred \in CredOutcomes,
        diskOk \in DiskOutcomes : TestTrigger(modelId, "a@x", prompt, Latency, cred, diskOk)
  \/ TestTriggerReturns
  \/ ExecutorNext

SpecTest == InitTrigger /\ [][NextTest]_vars

\* direct addTriggerRecord calls on an empty history: the n-th record is a
\* record of the n-th millisecond, successful when n is even
HistoryRecord(n) ==
  [timestamp |-> ToISOString(T0 + n),
   success |-> n % 2 = 0,
   triggerType |-> "manual",
   triggerSource |-> "manual",
   models |-> <<"m1">>,
   accountEmail |-> "a@x",
   durationMs |-> n,
   prompt |-> DEFAULT_PROMPT,
   error |-> IF n % 2 = 0 THEN NoError ELSE <<"API request failed">>]

AddTriggerRecord(record) ==
  /\ Len(appended) < MaxAppends
  /\ history' = addTriggerRecord(history, record)
  /\ appended' = Append(appended, record)
  /\ UNCHANGED <<docs, probe, resetState, now, dvars, evars>>

InitHistory ==
  /\ config = <<>> /\ modelMapping = <<>> /\ activeEmail = "a@x"
  /\ accountStatus = [e \in Emails |-> "valid"]
  /\ faults = {}
  /\ resetState = <<>>
  /\ history = <<>>
  /\ now = T0
  /\ InitDetector
  /\ InitExecutor
  /\ InitQueries

\* clearTriggerHistory: saveTriggerHistory([])
ClearTriggerHistory ==
  /\ history' = <<>>
  /\ appended' = <<>>
  /\ UNCHANGED <<docs, probe, resetState, now, dvars, evars>>

\* saveTriggerHistory(h), called on its own: the document is replaced by h,
\* whose records, oldest first, are from then on the ones appended
SaveTriggerHistory(h) ==
  /\ history' = h
  /\ appended' = [j \in 1..Len(h) |-> h[Len(h) + 1 - j]]
  /\ UNCHANGED <<docs, probe, resetState, now, dvars, evars>>

\* a history of two records, newest first
SavedHistories == {<<HistoryRecord(2), HistoryRecord(1)>>}

NextHistory ==
  \/ AddTriggerRecord(HistoryRecord(Len(appended) + 1))
  \/ ClearTriggerHistory
  \/ \E h \in SavedHistories : SaveTriggerHistory(h)

SpecHistory == InitHistory /\ [][NextHistory]_vars

\* reads of the history between the appends
RecentLimits == {-1, 0, 1, 3, 10, 100, 101}

GetRecentHistoryCalled(limit) ==
  /\ probe' = [fn |-> "getRecentHistory", input |-> limit,
               result |-> getRecentHistory(history, limit)]
  /\ UNCHANGED <<docs, appended, resetState, history, now, dvars, evars>>

GetLastTriggerCalled ==
  /\ probe' = [fn |-> "getLastTrigger", input |-> <<>>, result |-> getLastTrigger(history)]
  /\ UNCHANGED <<docs, appended, resetState, history, now, dvars, evars>>

NextRecent ==
  \/ AddTriggerRecord(HistoryRecord(Len(appended) + 1))
  \/ ClearTriggerHistory
  \/ \E h \in SavedHistories : SaveTriggerHistory(h)
  \/ \E limit \in RecentLimits : GetRecentHistoryCalled(limit)
  \/ GetLastTriggerCalled

SpecRecent == InitHistory /\ [][NextRecent]_vars

\* the cron installer on a crontab the user has edited: blank lines,
\* comments, jobs, a PATH line, a line that carries the marker
CronFaults == {{}, {"crontab"}}

SaveOutcomes == {TRUE} \cup (IF "crontab" \in faults THEN {FALSE} ELSE {})

UserLines ==
  {<<>>, <<"#", "backups">>, <<"0 3 * * *", "backup.sh">>, <<"PATH=", "/usr/bin">>,
   <<"0 8 * * *", "old-wakeup", "#", CRON_COMMENT_MARKER>>}

UserCrontabs ==
  {<<>>} \cup {<<a>> : a \in UserLines} \cup {<<a, b>> : a \in UserLines, b \in UserLines}

CronExpressions == {"0 9 * * *", "0 10 * * *"}

Platforms == {"linux", "darwin", "win32"}

\* a step of the cron installer: nothing but the host and the probe changes
CronStep ==
  UNCHANGED <<config, modelMapping, accountStatus, activeEmail, faults, efired, avars,
              platform, fvars,
              pvars, tvars, ovars, appended, resetState, history, now, dvars, evars>>

CronReturns(fn, arg, result) ==
  /\ probe' = [fn |-> fn, input |-> arg, result |-> result]
  /\ CronStep

Traced(event) == SubSeq(cronTrace, 2, 3) \o <<event>>

\* installCronJob up to the answer of loadCrontab
InstallCronJob(cronExpression) ==
  /\ cronCalls["installCronJob"].pc = "idle"
  /\ IF ~isCronSupported
     THEN /\ CronReturns("installCronJob", cronExpression,
                         [success |-> FALSE, error |-> "Cron is not supported"])
          /\ UNCHANGED <<crontab, cronBefore, cronCalls, cronTrace>>
     ELSE /\ cronCalls' = [cronCalls EXCEPT !["installCronJob"] =
                             [pc |-> "loaded", arg |-> cronExpression,
                              lines |-> loadCrontab(crontab)]]
          /\ cronBefore' = crontab
          /\ cronTrace' = Traced("install")
          /\ CronStep
          /\ UNCHANGED <<crontab, probe>>

\* installCronJob from the answer of loadCrontab to its return
InstallSaves(saveOk) ==
  LET call == cronCalls["installCronJob"]
  IN /\ call.pc = "loaded"
     /\ cronCalls' = [cronCalls EXCEPT !["installCronJob"] = NoCronCall]
     /\ UNCHANGED cronBefore
     /\ IF saveOk
        THEN /\ crontab' = saveCrontab(InstalledLines(call.lines, call.arg))
             /\ cronTrace' = Traced("installed")
             /\ CronReturns("installCronJob", call.arg,
                            [success |-> TRUE, cronExpression |-> call.arg])
        ELSE /\ cronTrace' = Traced("install failed")
             /\ CronReturns("installCronJob", call.arg,
                            [success |-> FALSE, error |-> "crontab failed"])
             /\ UNCHANGED crontab

\* uninstallCronJob up to the answer of loadCrontab; it returns there when no
\* line carries the marker
UninstallCronJob ==
  LET lines == loadCrontab(crontab)
      filteredLines == removeWakeupEntries(lines)
  IN /\ cronCalls["uninstallCronJob"].pc = "idle"
     /\ UNCHANGED <<crontab, cronBefore>>
     /\ IF ~isCronSupported
        THEN CronReturns("uninstallCronJob", "", FALSE) /\ UNCHANGED <<cronCalls, cronTrace>>
        ELSE IF Len(filteredLines) = Len(lines)
        THEN /\ CronReturns("uninstallCronJob", "", TRUE)
             /\ cronTrace' = Traced("nothing to uninstall")
             /\ UNCHANGED cronCalls
        ELSE /\ cronCalls' = [cronCalls EXCEPT !["uninstallCronJob"] =
                                [pc |-> "loaded", arg |-> "", lines |-> lines]]
             /\ cronTrace' = Traced("uninstall")
             /\ CronStep
             /\ UNCHANGED probe

\* uninstallCronJob from the answer of loadCrontab to its return
UninstallSaves(saveOk) ==
  LET call == cronCalls["uninstallCronJob"]
  IN /\ call.pc = "loaded"
     /\ cronCalls' = [cronCalls EXCEPT !["uninstallCronJob"] = NoCronCall]
     /\ UNCHANGED cronBefore
     /\ IF saveOk
        THEN /\ crontab' = saveCrontab(removeWakeupEntries(call.lines))
             /\ cronTrace' = Traced("uninstalled")
             /\ CronReturns("uninstallCronJob", "", TRUE)
        ELSE /\ cronTrace' = Traced("uninstall failed")
             /\ CronReturns("uninstallCronJob", "", FALSE)
             /\ UNCHANGED crontab

IsCronJobInstalledCalled ==
  LET lines == loadCrontab(crontab)
  IN /\ CronReturns("isCronJobInstalled", "",
                    isCronSupported
                    /\ \E j \in 1..Len(lines) : Includes(lines[j], CRON_COMMENT_MARKER))
     /\ UNCHANGED <<crontab, cronBefore, cronCalls, cronTrace>>

\* the user adds a line with crontab -e, at any time
EditedLines == {<<"0 5 * * *", "report.sh">>}

CrontabEdited(line) ==
  /\ \A j \in 1..Len(crontab) : crontab[j] # line
  /\ crontab' = Append(crontab, line)
  /\ cronTrace' = Traced("edit")
  /\ CronStep
  /\ UNCHANGED <<probe, cronBefore, cronCalls>>

InitCron ==
  /\ config = <<>> /\ modelMapping = <<>> /\ activeEmail = "a@x"
  /\ accountStatus = [e \in Emails |-> "valid"]
  /\ faults \in CronFaults
  /\ platform \in Platforms
  /\ crontab \in UserCrontabs
  /\ InitCronCalls
  /\ resetState = <<>>
  /\ history = <<>>
  /\ now = T0
  /\ InitDetector
  /\ InitExecutor
  /\ probe = [fn |-> "", input |-> "", result |-> FALSE]
  /\ appended = <<>>
  /\ InitFetch
  /\ InitProject
  /\ InitToken

NextCron ==
  \/ \E cronExpression \in CronExpressions : InstallCronJob(cronExpression)
  \/ \E saveOk \in SaveOutcomes : InstallSaves(saveOk)
  \/ UninstallCronJob
  \/ \E saveOk \in SaveOutcomes : UninstallSaves(saveOk)
  \/ IsCronJobInstalledCalled
  \/ \E line \in EditedLines : CrontabEdited(line)

SpecCron == InitCron /\ [][NextCron]_vars

\* ------------------------------------------- the cooldown and the config
MINUTE == 60 * 1000

\* values of resetCooldownMinutes; ages of the reset-state entries
CooldownMinutes == {10, 60, 120}

EntryAges == {30 * MINUTE, 60 * MINUTE - 1, 60 * MINUTE, 90 * MINUTE}

EntryAt(age) == [lastResetAt |-> ToISOString(T0), lastTriggeredTime |-> ToISOString(T0 - age)]

PriorStates == {<<>>} \cup {[k \in {"m1"} |-> EntryAt(a)] : a \in EntryAges}

\* saveWakeupConfig with another resetCooldownMinutes, all else as it was
SaveCooldownMinutes(minutes) ==
  /\ dpc # "fanout" /\ epc = "idle"
  /\ config # <<>>
  /\ config[1].resetCooldownMinutes # minutes
  /\ config' = <<[config[1] EXCEPT !.resetCooldownMinutes = minutes]>>
  /\ UNCHANGED <<modelMapping, accountStatus, activeEmail, faults, efired, avars,
                 host, fvars, pvars, tvars,
                 ovars,
                 resetState, history, now, dvars, evars, qvars>>

\* a write of config.json or model-mapping.json: nothing else changes
ConfigStep ==
  UNCHANGED <<accountStatus, activeEmail, faults, efired, avars,
              host, fvars, pvars, tvars,
              ovars,
              resetState, history, now, dvars, evars, appended>>

\* getDefaultConfig
getDefaultConfig ==
  MkConfig(FALSE, <<"claude-sonnet-4-5", "gemini-3-flash">>, NoSelection, UndefinedStr, 10)

\* getOrCreateConfig: the config, its selectedModels migrated when empty, or
\* the default config, saved
getOrCreateConfig(cfg) ==
  IF cfg = <<>> THEN getDefaultConfig
  ELSE IF Len(cfg[1].selectedModels) = 0
  THEN <<[cfg[1] EXCEPT !.selectedModels = <<"claude-sonnet-4-5", "gemini-3-flash">>]>>
  ELSE cfg

GetOrCreateConfig ==
  /\ dpc # "fanout" /\ epc = "idle"
  /\ config' = getOrCreateConfig(config)
  /\ probe' = [fn |-> "getOrCreateConfig", input |-> <<>>, result |-> config']
  /\ UNCHANGED modelMapping
  /\ ConfigStep

\* saveWakeupConfig(cfg)
SaveWakeupConfig(cfg) ==
  /\ dpc # "fanout" /\ epc = "idle"
  /\ config # cfg
  /\ config' = cfg
  /\ UNCHANGED <<modelMapping, probe>>
  /\ ConfigStep

\* saveModelMapping(mapping)
SaveModelMapping(mapping) ==
  /\ dpc # "fanout" /\ epc = "idle"
  /\ modelMapping # mapping
  /\ modelMapping' = mapping
  /\ UNCHANGED <<config, probe>>
  /\ ConfigStep

\* {...existing, ...newMappings}
Merged(existing, newMappings) ==
  [k \in DOMAIN existing \cup DOMAIN newMappings |->
     IF k \in DOMAIN newMappings THEN newMappings[k] ELSE existing[k]]

\* updateModelMapping(newMappings)
UpdateModelMapping(newMappings) ==
  /\ dpc # "fanout" /\ epc = "idle"
  /\ modelMapping' = Merged(modelMapping, newMappings)
  /\ modelMapping' # modelMapping
  /\ UNCHANGED <<config, probe>>
  /\ ConfigStep

\* the documents the direct writes are given
SavedConfigs ==
  {MkConfig(TRUE, <<>>, NoSelection, UndefinedStr, 10),
   MkConfig(TRUE, <<"m1", "m2">>, NoSelection, UndefinedStr, 120)}

SavedMappings == {[m \in {"m1"} |-> "pool"]}

\* both models unused; m1 unused and m2 used
CooldownShapes ==
  {<<<<"m1", 100, 5 * HOUR, TRUE>>, <<"m2", 99, RESET_TIME_MAX_MS, FALSE>>>>,
   <<<<"m2", 98, 5 * HOUR, TRUE>>, <<"m1", 99, RESET_TIME_MIN_MS, TRUE>>>>}

NewMappings == {[m \in {"m2"} |-> "other"]}

InitCooldown ==
  /\ config \in {<<>>, MkConfig(TRUE, <<"m1", "m2">>, NoSelection, UndefinedStr, 10)}
  /\ modelMapping = <<>> /\ activeEmail = "a@x"
  /\ accountStatus = [e \in Emails |-> IF e = "a@x" THEN "valid" ELSE "invalid"]
  /\ faults = {"timeout"}
  /\ resetState \in PriorStates
  /\ history = <<>>
  /\ now = T0
  /\ InitDetector
  /\ InitExecutor
  /\ InitQueries

NextCooldown ==
  \/ \E minutes \in CooldownMinutes : SaveCooldownMinutes(minutes)
  \/ GetOrCreateConfig
  \/ \E cfg \in SavedConfigs : SaveWakeupConfig(cfg)
  \/ \E mapping \in SavedMappings : SaveModelMapping(mapping)
  \/ \E newMappings \in NewMappings : UpdateModelMapping(newMappings)
  \/ \E shapes \in CooldownShapes, stateDiskOk \in DiskOutcomes,
        cred \in CredOutcomes, diskOk \in DiskOutcomes :
        DetectResetAndTrigger(shapes, 0, stateDiskOk, cred, diskOk)
  \/ \E cred \in CredOutcomes, diskOk \in DiskOutcomes : DetectResume(cred, diskOk)
  \/ ExecutorNext

SpecCooldown == InitCooldown /\ [][NextCooldown]_vars

\* ------------------------------------------------------- cloud parser
\* parseResetTime: milliseconds from t to the reset, undefined when there is
\* no reset time or it is not ahead
parseResetTime(resetTime, t) ==
  IF resetTime = NoISO THEN Undefined
  ELSE IF ParseISO(resetTime) - t > 0 THEN ParseISO(resetTime) - t
  ELSE Undefined

\* a ModelInfo of the API: quotaInfo is <<>> or <<[remainingFraction,
\* resetTime, isExhausted]>>, isExhausted is <<>> or <<boolean>>
QuotaFraction(model) ==
  IF model.quotaInfo = <<>> THEN Undefined ELSE model.quotaInfo[1].remainingFraction

QuotaResetTime(model) ==
  IF model.quotaInfo = <<>> THEN NoISO ELSE model.quotaInfo[1].resetTime

\* String.prototype.startsWith and String.prototype.includes
StrStartsWith(s, prefix) ==
  Len(s) >= Len(prefix) /\ SubSeq(s, 1, Len(prefix)) = prefix

StrIncludes(s, part) ==
  \E j \in 1..(Len(s) - Len(part) + 1) : SubSeq(s, j, j + Len(part) - 1) = part

\* parseModelInfo: the label is the display name, else the label, else the
\* ID, an empty string counting as absent; remainingPercentage is
\* quotaInfo.remainingFraction as it is
parseModelInfo(modelId, model, t) ==
  [label |-> IF model.displayName # "" THEN model.displayName
             ELSE IF model.label # "" THEN model.label
             ELSE modelId,
   modelId |-> modelId,
   remainingPercentage |-> QuotaFraction(model),
   isExhausted |-> IF model.quotaInfo # <<>> /\ model.quotaInfo[1].isExhausted # <<>>
                   THEN model.quotaInfo[1].isExhausted[1]
                   ELSE QuotaFraction(model) = 0,
   resetTime |-> QuotaResetTime(model),
   timeUntilResetMs |-> parseResetTime(QuotaResetTime(model), t),
   isAutocompleteOnly |-> \/ StrIncludes(modelId, "gemini-2.5")
                          \/ StrIncludes(model.displayName, "Gemini 2.5")]

\* shouldShowModel: no internal, image, experimental or lite model, and only
\* models with quota info
shouldShowModel(modelId, model) ==
  IF StrStartsWith(modelId, "chat_") \/ StrStartsWith(modelId, "tab_") THEN FALSE
  ELSE IF StrIncludes(modelId, "image") THEN FALSE
  ELSE IF StrStartsWith(modelId, "rev") THEN FALSE
  ELSE IF StrIncludes(modelId, "mquery") \/ StrIncludes(modelId, "lite") THEN FALSE
  ELSE IF model.quotaInfo = <<>> THEN FALSE
  ELSE TRUE

\* String.prototype.localeCompare for strings of the characters below: the
\* strings are compared by their letters without case first (space, then
\* punctuation, digits, letters), a prefix before the longer string; strings
\* that differ in case only are ordered by the first such character, the
\* lower-case one first
CollationOrder == " _-,;:!?.'()[]@*/&#%+0123456789abcdefghijklmnopqrstuvwxyz"

CollationUpper == " _-,;:!?.'()[]@*/&#%+0123456789ABCDEFGHIJKLMNOPQRSTUVWXYZ"

\* the place of a character in the order, the same for both cases of a letter
CollationKeys ==
  [c \in {SubSeq(CollationOrder, j, j) : j \in 1..Len(CollationOrder)}
           \cup {SubSeq(CollationUpper, j, j) : j \in 1..Len(CollationUpper)} |->
     CHOOSE j \in 1..Len(CollationOrder) :
       SubSeq(CollationOrder, j, j) = c \/ SubSeq(CollationUpper, j, j) = c]

RECURSIVE ComparePrimary(_, _, _)
ComparePrimary(a, b, j) ==
  IF j > Len(a) /\ j > Len(b) THEN 0
  ELSE IF j > Len(a) THEN -1
  ELSE IF j > Len(b) THEN 1
  ELSE LET ka == CollationKeys[SubSeq(a, j, j)]
           kb == CollationKeys[SubSeq(b, j, j)]
       IN IF ka < kb THEN -1 ELSE IF ka > kb THEN 1 ELSE ComparePrimary(a, b, j + 1)

RECURSIVE CompareCase(_, _, _)
CompareCase(a, b, j) ==
  IF j > Len(a) THEN 0
  ELSE IF SubSeq(a, j, j) = SubSeq(b, j, j) THEN CompareCase(a, b, j + 1)
  ELSE IF SubSeq(CollationOrder, CollationKeys[SubSeq(a, j, j)], CollationKeys[SubSeq(a, j, j)])
            = SubSeq(a, j, j)
  THEN -1 ELSE 1

localeCompare(a, b) ==
  IF a = b THEN 0
  ELSE LET primary == ComparePrimary(a, b, 1)
       IN IF primary # 0 THEN primary ELSE CompareCase(a, b, 1)

\* models.sort by label (the sort is stable)
RECURSIVE InsertByLabel(_, _)
InsertByLabel(model, sorted) ==
  IF sorted = <<>> THEN <<model>>
  ELSE IF localeCompare(model.label, Head(sorted).label) < 0
  THEN <<model>> \o sorted
  ELSE <<Head(sorted)>> \o InsertByLabel(model, Tail(sorted))

RECURSIVE SortByLabel(_)
SortByLabel(models) ==
  IF models = <<>> THEN <<>>
  ELSE InsertByLabel(models[Len(models)], SortByLabel(SubSeq(models, 1, Len(models) - 1)))

\* parseQuotaSnapshot: the models of the snapshot, from the entries
\* <<modelId, ModelInfo>> of modelsResponse.models in their order
RECURSIVE ParsedModels(_, _)
ParsedModels(entries, t) ==
  IF entries = <<>> THEN <<>>
  ELSE LET rest == ParsedModels(Tail(entries), t)
           e == Head(entries)
       IN IF shouldShowModel(e[1], e[2]) THEN <<parseModelInfo(e[1], e[2], t)>> \o rest
          ELSE rest

parseQuotaSnapshot(entries, t) == SortByLabel(ParsedModels(entries, t))

\* what the API says of a model: full, empty or no fraction; no reset time,
\* one in the past, and reset times around the window of the detector
ApiQuotaInfos ==
  {[remainingFraction |-> f, resetTime |-> r, isExhausted |-> x] :
     f \in {Undefined, 0, 1},
     r \in {NoISO, ToISOString(T0 - HOUR), ToISOString(T0 + RESET_TIME_MIN_MS),
            ToISOString(T0 + 5 * HOUR), ToISOString(T0 + RESET_TIME_MAX_MS + 1)},
     x \in {<<>>, <<FALSE>>}}

FullQuota ==
  [remainingFraction |-> 1, resetTime |-> ToISOString(T0 + 5 * HOUR), isExhausted |-> <<>>]

\* the IDs that shouldShowModel hides, one for each of its tests
InternalModelIds ==
  {"chat_12345", "tab_flash", "gemini-3-pro-image", "rev19-uic3-1p", "gemini-mquery-1",
   "gemini-2.5-flash-lite"}

ApiModels ==
  {<<"gemini-2.0-flash",
     [displayName |-> "Gemini 2.0 Flash", label |-> "", quotaInfo |-> <<q>>]>> :
     q \in ApiQuotaInfos}
  \cup {<<"claude-3.5-sonnet",
          [displayName |-> "Claude 3.5 Sonnet", label |-> "", quotaInfo |-> <<q>>]>> :
          q \in {FullQuota,
                 [remainingFraction |-> 0, resetTime |-> NoISO, isExhausted |-> <<TRUE>>]}}
  \cup {<<"gpt-oss-120b", [displayName |-> "", label |-> "", quotaInfo |-> <<>>]>>,
        <<"some-model-id", [displayName |-> "", label |-> "", quotaInfo |-> <<FullQuota>>]>>,
        <<"labelled-model",
          [displayName |-> "", label |-> "Labelled", quotaInfo |-> <<FullQuota>>]>>,
        <<"gemini-2.5-pro",
          [displayName |-> "Gemini 2.5 Pro", label |-> "gemini pro",
           quotaInfo |-> <<FullQuota>>]>>}
  \cup {<<id, [displayName |-> "Internal", label |-> "", quotaInfo |-> <<FullQuota>>]>> :
          id \in InternalModelIds}

\* the models of a response form an object: no ID is there twice
ModelsResponses ==
  {<<>>} \cup {<<a>> : a \in ApiModels}
        \cup {pair \in ApiModels \X ApiModels :
                pair[2][1] \notin {"gemini-2.0-flash", pair[1][1]}}

\* parseQuotaSnapshot is called at the time now, and its snapshot handed to
\* findUnusedModels
ParseQuotaSnapshotCalled(entries) ==
  /\ probe' = [fn |-> "parseQuotaSnapshot", input |-> entries,
               result |-> [models |-> parseQuotaSnapshot(entries, now),
                           unused |-> findUnusedModels(parseQuotaSnapshot(entries, now))]]
  /\ UNCHANGED <<docs, appended, resetState, history, now, dvars, evars>>

InitParser ==
  /\ config = <<>> /\ modelMapping = <<>> /\ activeEmail = "a@x"
  /\ accountStatus = [e \in Emails |-> "valid"]
  /\ faults = {}
  /\ resetState = <<>>
  /\ history = <<>>
  /\ now = T0
  /\ InitDetector
  /\ InitExecutor
  /\ probe = [fn |-> "", input |-> <<>>, result |-> [models |-> <<>>, unused |-> <<>>]]
  /\ appended = <<>>
  /\ InitHost

NextParser == \E entries \in ModelsResponses : ParseQuotaSnapshotCalled(entries)

SpecParser == InitParser /\ [][NextParser]_vars

\* -------------------------------------------------- project resolution
\* the defaults of resolveProjectId(maxRetries, retryDelayMs)
maxRetries == 5
retryDelayMs == 2000

\* loadCodeAssist: this.projectId after a response
ProjectIdAfter(current, response) ==
  LET p == response.cloudaicompanionProject
  IN IF p = <<>> THEN current
     ELSE IF p[1] = "string" THEN (IF p[2] # "" THEN p[2] ELSE current)
     ELSE IF p[2] # UndefinedStr /\ p[2] # "" THEN p[2]
     ELSE current

\* tiers.find(t => t.isDefault): <<>> or <<tier>>
DefaultTier(tiers) ==
  LET found == SelectSeq(tiers, LAMBDA t : t.isDefault)
  IN IF found = <<>> THEN <<>> ELSE <<found[1]>>

\* the onboarding tier: default tier, then paidTier, then currentTier, then
\* the first allowed tier
PickTier(loadResponse) ==
  IF DefaultTier(loadResponse.allowedTiers) # <<>>
  THEN DefaultTier(loadResponse.allowedTiers)[1].id
  ELSE IF loadResponse.paidTier # UndefinedStr THEN loadResponse.paidTier
  ELSE IF loadResponse.currentTier # UndefinedStr THEN loadResponse.currentTier
  ELSE IF Len(loadResponse.allowedTiers) > 0 THEN loadResponse.allowedTiers[1].id
  ELSE UndefinedStr

\* variant: one query more
LoopContinues_Inclusive(i) == i <= maxRetries

\* the test of the retry loop: i < maxRetries
LoopContinues(i) == i < maxRetries

\* a step of resolveProjectId: its variables change, and the clock
ProjectStep(pc, id, response, tier, i, log, result, t) ==
  /\ ppc' = pc /\ projectId' = id /\ pload' = response /\ ptier' = tier /\ pi' = i
  /\ plog' = log /\ presult' = result /\ now' = t
  /\ UNCHANGED <<config, modelMapping, accountStatus, activeEmail, faults, efired, avars,
                 host, fvars, tvars,
                 ovars,
                 resetState, history, dvars, evars, qvars>>

\* resolveProjectId() on a new client, whose projectId is the one cached in
\* the token store, if any
ResolveProjectId(cached) ==
  /\ ppc = "idle"
  /\ pcached' = cached
  /\ IF cached # UndefinedStr
     THEN ProjectStep("returned", cached, NoResponse, UndefinedStr, 0, <<>>, cached, now)
     ELSE ProjectStep("load", cached, NoResponse, UndefinedStr, 0, <<>>, UndefinedStr, now)

\* the first loadCodeAssist answers (<<response>>) or throws (<<>>); without
\* an identifier the tier is picked, and without a tier ID undefined returned
FirstLoadAnswered(answer) ==
  /\ ppc = "load"
  /\ UNCHANGED pcached
  /\ LET log == Append(plog, <<"loadCodeAssist">>)
     IN IF answer = <<>>
        THEN ProjectStep("threw", projectId, pload, ptier, pi, log, presult, now)
        ELSE LET id == ProjectIdAfter(projectId, answer[1])
                 tierId == PickTier(answer[1])
             IN IF id # UndefinedStr
                THEN ProjectStep("returned", id, answer[1], ptier, pi, log, id, now)
                ELSE IF tierId = UndefinedStr
                THEN ProjectStep("returned", id, answer[1], tierId, pi, log, UndefinedStr, now)
                ELSE ProjectStep("onboard", id, answer[1], tierId, pi, log, presult, now)

\* the onboardUser request answers or fails: the retry loop starts either way
OnboardAnswered(ok) ==
  /\ ppc = "onboard"
  /\ UNCHANGED pcached
  /\ LET log == Append(plog, <<"onboardUser", ptier, ok>>)
     IN IF LoopContinues(0)
        THEN ProjectStep("wait", projectId, pload, ptier, 0, log, presult, now)
        ELSE ProjectStep("returned", projectId, pload, ptier, 0, log, UndefinedStr, now)

\* the wait before a retry is over
RetryTimerFired ==
  /\ ppc = "wait"
  /\ UNCHANGED pcached
  /\ ProjectStep("poll", projectId, pload, ptier, pi, Append(plog, <<"setTimeout", retryDelayMs>>),
                 presult, now + retryDelayMs)

\* the loadCodeAssist of retry i answers or throws
RetryLoadAnswered(answer) ==
  /\ ppc = "poll"
  /\ UNCHANGED pcached
  /\ LET log == Append(plog, <<"loadCodeAssist">>)
     IN IF answer = <<>>
        THEN ProjectStep("threw", projectId, pload, ptier, pi, log, presult, now)
        ELSE LET id == ProjectIdAfter(projectId, answer[1])
             IN IF id # UndefinedStr
                THEN ProjectStep("returned", id, pload, ptier, pi, log, id, now)
                ELSE IF LoopContinues(pi + 1)
                THEN ProjectStep("wait", id, pload, ptier, pi + 1, log, presult, now)
                ELSE ProjectStep("returned", id, pload, ptier, pi + 1, log, UndefinedStr, now)

\* the answers of the API: tiers with and without an ID, flagged default or not
TierLists ==
  {<<>>,
   <<[id |-> "free-tier", isDefault |-> FALSE]>>,
   <<[id |-> "free-tier", isDefault |-> FALSE], [id |-> "standard-tier", isDefault |-> TRUE]>>,
   <<[id |-> UndefinedStr, isDefault |-> TRUE], [id |-> "free-tier", isDefault |-> FALSE]>>,
   <<[id |-> UndefinedStr, isDefault |-> FALSE], [id |-> "free-tier", isDefault |-> FALSE]>>}

Unresolved ==
  {[cloudaicompanionProject |-> p, allowedTiers |-> tiers, paidTier |-> paid,
    currentTier |-> current] :
     p \in {<<>>, <<"object", UndefinedStr>>},
     tiers \in TierLists,
     paid \in {UndefinedStr, "paid-tier"},
     current \in {UndefinedStr, "current-tier"}}

Resolved ==
  {[cloudaicompanionProject |-> p, allowedTiers |-> <<>>, paidTier |-> UndefinedStr,
    currentTier |-> UndefinedStr] :
     p \in {<<"string", "project-1">>, <<"object", "project-2">>}}

\* answers to the first query; answers to a retry, where only the project counts
FirstAnswers == {<<>>} \cup {<<r>> : r \in Unresolved \cup Resolved}

RetryAnswers == {<<>>, <<NoResponse>>} \cup {<<r>> : r \in Resolved}

InitResolve ==
  /\ config = <<>> /\ modelMapping = <<>> /\ activeEmail = "a@x"
  /\ accountStatus = [e \in Emails |-> "valid"]
  /\ faults = {}
  /\ resetState = <<>>
  /\ history = <<>>
  /\ now = T0
  /\ InitDetector
  /\ InitExecutor
  /\ InitQueries

NextResolve ==
  \/ \E cached \in {UndefinedStr, "project-0"} : ResolveProjectId(cached)
  \/ \E answer \in FirstAnswers : FirstLoadAnswered(answer)
  \/ \E ok \in BOOLEAN : OnboardAnswered(ok)
  \/ RetryTimerFired
  \/ \E answer \in RetryAnswers : RetryLoadAnswered(answer)

\* a timer that was set fires; nothing makes the server answer a request, and
\* the requests have no timeout
RetryTimersFire == WF_vars(RetryTimerFired)

SpecResolve == InitResolve /\ [][NextResolve]_vars /\ RetryTimersFire

\* ------------------------------------------------ overlapping invocations
\* a step of invocation i of detectResetAndTrigger
OverlapStep(i, pc, snapshot, batch, start, during, result, fan) ==
  /\ opc' = [opc EXCEPT ![i] = pc]
  /\ osnapshot' = [osnapshot EXCEPT ![i] = snapshot]
  /\ obatch' = [obatch EXCEPT ![i] = batch]
  /\ ostart' = [ostart EXCEPT ![i] = start]
  /\ oduring' = [oduring EXCEPT ![i] = during]
  /\ oresult' = [oresult EXCEPT ![i] = result]
  /\ ofan' = [ofan EXCEPT ![i] = fan]
  /\ UNCHANGED <<config, modelMapping, accountStatus, activeEmail, faults, efired, avars,
                 host, fvars, pvars,
                 tvars, orewrites, dvars, evars, qvars>>

\* the synchronous prefix of the executeTrigger call for account k of the
\* fan-out of an invocation, at time t: the call, and the history it leaves;
\* a credential store that throws fails every model at once, and the results
\* are recorded before the call returns
OverlapExecuteTrigger(fan, k, batch, cred, h, t) ==
  LET opts == DetectOpts(fan.accounts[k], batch, fan.cfg[1])
      call == [fan EXCEPT !.k = k, !.opts = opts, !.bi = 0, !.start = 0, !.req = <<>>,
                          !.results = <<>>, !.ret = NoRet]
      failed == FailAll(opts.models, <<"Failed to get credentials for ", opts.accountEmail>>)
  IN IF IsNoOp(opts.models)
     THEN [fan |-> [call EXCEPT !.pc = "returned", !.ret = [success |-> TRUE, results |-> <<>>]],
           history |-> h]
     ELSE IF cred = "throws"
     THEN [fan |-> [call EXCEPT !.pc = "returned",
                                !.ret = [success |-> AllSuccess(failed), results |-> failed]],
           history |-> recordResults(h, failed, opts, t)]
     ELSE [fan |-> [call EXCEPT !.pc = "token"], history |-> h]

\* batch.map(modelId => triggerSingleModel(...)) for the batch starting at
\* bi: every request is issued at time t, which is its startTime
OverlapDispatch(fan, bi, results, t) ==
  [fan EXCEPT !.pc = "batch", !.bi = bi, !.start = t, !.results = results,
              !.req = [j \in 1..BatchLen(fan.opts.models, bi) |->
                         [st |-> "pending", durationMs |-> 0, error |-> NoError]]]

\* executeTrigger returns {success, results}
OverlapReturn(fan, results) ==
  [fan EXCEPT !.pc = "returned", !.bi = 0, !.start = 0, !.req = <<>>, !.results = <<>>,
              !.ret = [success |-> AllSuccess(results), results |-> results]]

\* the event loop takes up an event at time t.  Promise continuations run
\* before the next event: no call has returned to a loop that has not
\* resumed, and no batch has settled without its Promise.all resolving.  A
\* pending request races a 30 s timer, which has not run out by then.
OverlapEventAt(t) ==
  \A i \in 1..2 :
    /\ ofan[i].pc # "returned"
    /\ ofan[i].pc = "batch" =>
         /\ \E j \in 1..Len(ofan[i].req) : ofan[i].req[j].st = "pending"
         /\ t <= ofan[i].start + REQUEST_TIMEOUT_MS

\* invocation i of detectResetAndTrigger(snapshot) starts dt after the last
\* event and runs to its first await: the config and account checks and the
\* scan with its reset-state writes, without a suspension; with a batch it
\* calls executeTrigger for the first account and awaits it.  The invocations
\* are numbered in the order of their starts.
OverlapDetect(i, shapes, dt, cred) ==
  LET t == now + dt
      snapshot == MkSnapshot(shapes, t)
      scan == Scan(snapshot, resetState, [batch |-> <<>>, state |-> resetState], t, t)
      during == {j \in 1..2 : opc[j] = "fanout"}
      begun == OverlapExecuteTrigger([NoFanout EXCEPT !.accounts = FanoutAccounts,
                                                      !.cfg = loadWakeupConfig],
                                     1, scan.batch, cred, history, t)
  IN /\ opc[i] = "idle"
     /\ i = 2 => opc[1] # "idle"
     /\ OverlapEventAt(t)
     /\ now' = t
     /\ IF loadWakeupConfig = <<>> \/ ~loadWakeupConfig[1].enabled \/ Len(FanoutAccounts) = 0
        THEN /\ OverlapStep(i, "returned", snapshot, <<>>, t, during, NotTriggered, NoFanout)
             /\ UNCHANGED <<resetState, history>>
        ELSE IF Len(scan.batch) = 0
        THEN /\ OverlapStep(i, "returned", snapshot, <<>>, t, during, NotTriggered, NoFanout)
             /\ UNCHANGED <<resetState, history>>
        ELSE /\ OverlapStep(i, "fanout", snapshot, scan.batch, t, during, NotTriggered,
                            begun.fan)
             /\ resetState' = scan.state
             /\ history' = begun.history

\* a step of the executeTrigger call that invocation i awaits
OverlapCallStep(i, fan, h, t) ==
  /\ opc[i] = "fanout"
  /\ now' = t
  /\ history' = h
  /\ UNCHANGED resetState
  /\ OverlapStep(i, opc[i], osnapshot[i], obatch[i], ostart[i], oduring[i], oresult[i], fan)

\* await tokenManager.getValidAccessToken() settles in the call of invocation
\* i: a failure fails every model, and the results are recorded
OverlapTokenChecked(i, outcome) ==
  LET fan == ofan[i]
      failed == FailAll(fan.opts.models, AuthErrorMessage(outcome, fan.opts.accountEmail))
  IN /\ fan.pc = "token"
     /\ OverlapEventAt(now)
     /\ IF outcome = "ok"
        THEN OverlapCallStep(i, [fan EXCEPT !.pc = "project"], history, now)
        ELSE OverlapCallStep(i, OverlapReturn(fan, failed),
                             recordResults(history, failed, fan.opts, now), now)

\* await client.resolveProjectId() settles, with or without an identifier:
\* the first batch is dispatched
OverlapProjectResolved(i, outcome) ==
  /\ ofan[i].pc = "project"
  /\ OverlapEventAt(now)
  /\ OverlapCallStep(i, OverlapDispatch(ofan[i], 0, <<>>, now), history, now)

\* client.generateContent wins the race of request j of the batch: a response
\* (ok) or a rejection (failed), with the time since the request was issued
OverlapRequestSettles(i, j, outcome) ==
  LET fan == ofan[i]
      t == Max(now, fan.start + Latency)
  IN /\ fan.pc = "batch"
     /\ j \in 1..Len(fan.req)
     /\ fan.req[j].st = "pending"
     /\ OverlapEventAt(t)
     /\ OverlapCallStep(i, [fan EXCEPT !.req[j] =
                              [st |-> outcome, durationMs |-> t - fan.start,
                               error |-> IF outcome = "ok" THEN NoError
                                         ELSE <<"API request failed">>]],
                        history, t)

\* the 30 s timer of request j wins the race
OverlapRequestTimesOut(i, j) ==
  LET fan == ofan[i]
      t == Max(now, fan.start + REQUEST_TIMEOUT_MS)
  IN /\ fan.pc = "batch"
     /\ "timeout" \in faults
     /\ j \in 1..Len(fan.req)
     /\ fan.req[j].st = "pending"
     /\ OverlapEventAt(t)
     /\ OverlapCallStep(i, [fan EXCEPT !.req[j] =
                              [st |-> "timeout", durationMs |-> t - fan.start,
                               error |-> <<"Request timed out">>]],
                        history, t)

\* Promise.all of the batch resolves: results.push(...batchResults), then the
\* next batch is dispatched, or recordResults and return
OverlapBatchSettled(i) ==
  LET fan == ofan[i]
      results == fan.results \o [j \in 1..Len(fan.req) |->
                                   ResultOf(fan.req[j], fan.opts.models[fan.bi + j])]
  IN /\ fan.pc = "batch"
     /\ \A j \in 1..Len(fan.req) : fan.req[j].st # "pending"
     /\ IF NextBatchStart(fan.bi) < Len(fan.opts.models)
        THEN OverlapCallStep(i, OverlapDispatch(fan, NextBatchStart(fan.bi), results, now),
                             history, now)
        ELSE OverlapCallStep(i, OverlapReturn(fan, results),
                             recordResults(history, results, fan.opts, now), now)

\* the await of the fan-out loop of invocation i resumes with the result of
\* the call for account k: the account counts if a model succeeded; the call
\* for the next account starts, or the invocation returns its batch
OverlapResume(i, cred) ==
  LET fan == ofan[i]
      success == IF \E j \in 1..Len(fan.ret.results) : fan.ret.results[j].success
                 THEN fan.success + 1 ELSE fan.success
      begun == OverlapExecuteTrigger([fan EXCEPT !.success = success], fan.k + 1, obatch[i],
                                     cred, history, now)
  IN /\ opc[i] = "fanout"
     /\ fan.pc = "returned"
     /\ UNCHANGED <<resetState, now>>
     /\ IF fan.k < Len(fan.accounts)
        THEN /\ history' = begun.history
             /\ OverlapStep(i, "fanout", osnapshot[i], obatch[i], ostart[i], oduring[i],
                            oresult[i], begun.fan)
        ELSE /\ history' = history
             /\ OverlapStep(i, "returned", osnapshot[i], obatch[i], ostart[i], oduring[i],
                            FanoutResult(obatch[i], success),
                            [fan EXCEPT !.pc = "idle", !.success = success])

\* another caller may write the reset-state document: the first invocation
\* is suspended and the second has not started
OverlapMayWrite ==
  /\ orewrites < MaxRewrites
  /\ opc[1] = "fanout" /\ opc[2] = "idle"
  /\ OverlapEventAt(now)

\* what such a write leaves alone
OverlapWriteFrame ==
  UNCHANGED <<config, modelMapping, accountStatus, activeEmail, faults, efired, avars,
              host, fvars, pvars,
              tvars, opc, osnapshot, obatch, ostart, oduring, oresult, ofan, history, now,
              dvars, evars, qvars>>

\* clearResetState: saveResetState({})
OverlapClear ==
  /\ OverlapMayWrite
  /\ resetState # <<>>
  /\ resetState' = <<>>
  /\ orewrites' = orewrites + 1
  /\ OverlapWriteFrame

\* saveResetState(state): the document is replaced as a whole
OverlapSave(state) ==
  /\ OverlapMayWrite
  /\ resetState # state
  /\ resetState' = state
  /\ orewrites' = orewrites + 1
  /\ OverlapWriteFrame

\* snapshots of unused and used models; one lists a model twice
OverlapShapes ==
  {<<<<"m2", 98, 5 * HOUR, TRUE>>, <<"m1", 99, RESET_TIME_MIN_MS, TRUE>>>>,
   <<<<"m1", 100, 5 * HOUR, TRUE>>, <<"m2", 100, 5 * HOUR, TRUE>>,
     <<"m1", 100, 5 * HOUR, TRUE>>>>}

\* the time from the last event to the start of an invocation: a second for
\* the first, and a second or up to the end of the cooldown for the second
OverlapElapsed ==
  IF opc[1] = "idle" THEN {Latency}
  ELSE {Latency, DEFAULT_COOLDOWN_MS - Latency, DEFAULT_COOLDOWN_MS}

\* the accounts and what goes wrong in a behaviour: two valid accounts and no
\* failure; or one valid account, whose credentials or token may fail, or
\* whose requests may be rejected or not answered in time
OverlapWorlds ==
  {[status |-> [e \in Emails |-> "valid"], faults |-> {}]}
    \cup {[status |-> [e \in Emails |-> IF e = "a@x" THEN "valid" ELSE "invalid"],
           faults |-> f] : f \in {{"cred", "auth"}, {"request"}, {"timeout"}}}

InitOverlapping ==
  /\ \E e \in BOOLEAN : config = MkConfig(e, <<"m1", "m2">>, NoSelection, UndefinedStr, 10)
  /\ modelMapping = <<>> /\ activeEmail = "a@x"
  /\ \E world \in OverlapWorlds : accountStatus = world.status /\ faults = world.faults
  /\ resetState = <<>>
  /\ history = <<>>
  /\ now = T0
  /\ InitDetector
  /\ InitExecutor
  /\ InitQueries

NextOverlapping ==
  \/ \E i \in 1..2, shapes \in OverlapShapes, dt \in OverlapElapsed, cred \in CredOutcomes :
        OverlapDetect(i, shapes, dt, cred)
  \/ \E i \in 1..2, outcome \in TokenOutcomes : OverlapTokenChecked(i, outcome)
  \/ \E i \in 1..2, outcome \in ProjectOutcomes : OverlapProjectResolved(i, outcome)
  \/ \E i \in 1..2, j \in 1..MAX_CONCURRENT_REQUESTS, outcome \in RequestOutcomes :
        OverlapRequestSettles(i, j, outcome)
  \/ \E i \in 1..2, j \in 1..MAX_CONCURRENT_REQUESTS : OverlapRequestTimesOut(i, j)
  \/ \E i \in 1..2 : OverlapBatchSettled(i)
  \/ \E i \in 1..2, cred \in CredOutcomes : OverlapResume(i, cred)
  \/ OverlapClear
  \/ \E state \in SavedResetStates : OverlapSave(state)

SpecOverlap == InitOverlapping /\ [][NextOverlapping]_vars

\* ----------------------------------------------------- all-accounts fetch
\* fetchQuotaForAccount: effectiveMethod
EffectiveMethod(method) == IF method = "auto" \/ method = "local" THEN "google" ELSE method

\* the token manager created while no account is active: it has no account
\* email and holds the tokens of the legacy storage
LegacyManager == "<legacy>"

\* getTokenManager: when there is no singleton one is created, for the active
\* account or, with no active account, on the legacy tokens; the singleton
\* is returned
getTokenManager(inst, active) ==
  IF inst # UndefinedStr THEN inst
  ELSE IF active = UndefinedStr THEN LegacyManager
  ELSE active

\* the calls of fetchQuotaForAccount that have not settled
InFlight(calls) == {k \in 1..Len(calls) : calls[k].pc = "fetching"}

\* variant: the loop starts the next fetch without waiting for the last
LoopAwaits_Parallel(calls) == TRUE

\* await fetchQuotaForAccount: the loop goes on when the call has settled
LoopAwaits(calls) == InFlight(calls) = {}

\* manager.setActiveAccount(email) of the account manager, whose module is
\* not among the sources: the account that getActiveEmail() returns from then
\* on, which is what its callers in the quota command use it for
setActiveAccount(email) == email

\* the finally of fetchQuotaForAccount and of fetchSingleAccountQuota: the
\* active account after the call
Restored(call, active) ==
  IF call.switched /\ call.original # UndefinedStr
  THEN setActiveAccount(call.original)
  ELSE active

\* what the quota command and the login command leave alone
AccountsFrame ==
  UNCHANGED <<config, modelMapping, accountStatus, faults, host, fvars, pvars, tvars, ovars,
              efired, resetState, history, now, dvars, evars, qvars>>

\* a step of the all-accounts fetch
AccountsStep(active, inst, calls, pc, seen, options, results) ==
  /\ activeEmail' = active /\ instance' = inst /\ acalls' = calls /\ lpc' = pc
  /\ lactive' = seen /\ loptions' = options /\ lresults' = results /\ lk' = Len(results)
  /\ UNCHANGED scall
  /\ AccountsFrame

\* a step of the single-account fetch or of the login command
SingleStep(active, inst, call) ==
  /\ activeEmail' = active /\ instance' = inst /\ scall' = call
  /\ UNCHANGED <<acalls, lpc, lk, lactive, loptions, lresults>>
  /\ AccountsFrame

\* program.parse() runs the one command of the command line: a process runs
\* a command only when it has run none, and its token-manager singleton is
\* unset then
CommandMayStart == lpc = "idle" /\ scall.pc = "idle" /\ instance = UndefinedStr

\* fetchAllAccountsQuota(options) up to its loop
FetchAllAccountsQuota(options) ==
  /\ lpc = "idle"
  /\ CommandMayStart
  /\ AccountsStep(activeEmail, instance, <<>>, "loop", activeEmail, options, <<>>)

\* fetchSingleAccountQuota: the method, forced to google for --account
SingleMethod(options) ==
  IF options.account # UndefinedStr /\ options.method # "google" THEN "google"
  ELSE options.method

\* fetchSingleAccountQuota(options) up to its await of fetchQuota: the login
\* check of the google method (on a manager of its own for --account, on the
\* singleton otherwise) ends the process when it fails; the target account
\* is made active, without a reset of the token manager; fetchQuota begins:
\* fetchQuotaGoogle gets the token manager at once when the method is google,
\* and the local method is tried first otherwise
FetchSingleAccountQuota(options, loggedIn) ==
  LET method == SingleMethod(options)
      checked == IF method = "google" /\ options.account = UndefinedStr
                 THEN getTokenManager(instance, activeEmail) ELSE instance
      switched == options.account # UndefinedStr /\ options.account # activeEmail
      active == IF switched THEN setActiveAccount(options.account) ELSE activeEmail
      call == [account |-> options.account, original |-> activeEmail, switched |-> switched,
               method |-> method, pc |-> "fetching",
               stage |-> IF method = "google" THEN "google" ELSE "local"]
  IN /\ CommandMayStart
     /\ IF method = "google" /\ ~loggedIn
        THEN SingleStep(activeEmail, checked, [call EXCEPT !.switched = FALSE, !.pc = "exited"])
        ELSE SingleStep(active,
                        IF method = "google" THEN getTokenManager(checked, active) ELSE checked,
                        call)

\* fetchQuota('auto'), the catch of the local method: getTokenManager() gives
\* the singleton, created now if there is none; a logged-in user's fetch goes
\* on with fetchQuotaGoogle, and otherwise fetchQuota throws
\* NoAuthMethodAvailableError
SingleLocalFails(loggedIn) ==
  /\ scall.pc = "fetching" /\ scall.method = "auto" /\ scall.stage = "local"
  /\ SingleStep(activeEmail, getTokenManager(instance, activeEmail),
                [scall EXCEPT !.stage = IF loggedIn THEN "google" ELSE "rejected"])

\* the await of fetchQuota in fetchSingleAccountQuota resumes: fetchQuota has
\* returned (the local method, or fetchQuotaGoogle) or thrown (the local
\* method of --method local, fetchQuotaGoogle, or fetchQuota itself).  The
\* finally restores the active account, and leaves the token manager as it
\* is; an error ends the process in handleQuotaError.
SingleSettles(ok) ==
  /\ scall.pc = "fetching"
  /\ scall.stage = "rejected" => ~ok
  /\ scall.method = "auto" /\ scall.stage = "local" => ok
  /\ SingleStep(Restored(scall, activeEmail), instance,
                [scall EXCEPT !.pc = IF ok THEN "returned" ELSE "exited"])

\* loginCommand after a successful startOAuthFlow: addAccount has stored the
\* account, made active or not, and resetTokenManager() clears the singleton;
\* the command then ends the process
LoginCommand(email, activated) ==
  /\ CommandMayStart
  /\ SingleStep(IF activated THEN email ELSE activeEmail, UndefinedStr,
                [NoSingle EXCEPT !.pc = "exited"])

\* one iteration of the loop up to its await: the account's cache is used, or
\* fetchQuotaForAccount(email, method) switches to the account, resets the
\* token manager and starts fetchQuota, which gets the token manager
LoopNext(cacheValid) ==
  LET next == lk + Cardinality(InFlight(acalls)) + 1
      email == Directory[next]
      switched == email # activeEmail
      active == IF switched THEN setActiveAccount(email) ELSE activeEmail
      inst == IF switched THEN UndefinedStr ELSE instance
  IN /\ lpc = "loop"
     /\ LoopAwaits(acalls)
     /\ next <= Len(Directory)
     /\ IF ~loptions.refresh /\ cacheValid
        THEN AccountsStep(activeEmail, instance, acalls,
                          IF next = Len(Directory) THEN "done" ELSE "loop", lactive, loptions,
                          Append(lresults, <<email, "cached">>))
        ELSE AccountsStep(active, getTokenManager(inst, active),
                          Append(acalls, [email |-> email, original |-> activeEmail,
                                          switched |-> switched, pc |-> "fetching",
                                          method |-> EffectiveMethod(loptions.method)]),
                          "loop", lactive, loptions, lresults)

\* fetchQuota of call k returns or throws: the finally restores the active
\* account and resets the token manager, and the loop records the result
FetchSettles(k, ok, cached) ==
  /\ k \in InFlight(acalls)
  /\ LET call == acalls[k]
         restores == call.switched /\ call.original # UndefinedStr
         results == Append(lresults, <<call.email, IF ok THEN "success"
                                                    ELSE IF cached THEN "cached" ELSE "error">>)
     IN AccountsStep(Restored(call, activeEmail),
                     IF restores THEN UndefinedStr ELSE instance,
                     [acalls EXCEPT ![k].pc = IF ok THEN "returned" ELSE "threw"],
                     IF Len(results) = Len(Directory) THEN "done" ELSE "loop",
                     lactive, loptions, results)

InitAccounts ==
  /\ config = <<>> /\ modelMapping = <<>>
  /\ activeEmail \in {UndefinedStr} \cup Emails
  /\ accountStatus = [e \in Emails |-> "valid"]
  /\ faults = {}
  /\ resetState = <<>>
  /\ history = <<>>
  /\ now = T0
  /\ InitDetector
  /\ InitExecutor
  /\ probe = NoProbe /\ appended = <<>>
  /\ crontab = <<>> /\ InitCronCalls /\ platform = "linux" /\ InitFetch /\ InitProject
  /\ tokens = <<>> /\ InitTokenCall /\ InitOverlap /\ efired = {}
  /\ instance = UndefinedStr
  /\ acalls = <<>> /\ lpc = "idle" /\ lk = 0 /\ lactive = UndefinedStr /\ lresults = <<>>
  /\ loptions = [method |-> "auto", refresh |-> FALSE] /\ scall = NoSingle

NextAccounts ==
  \/ \E method \in {"auto", "google", "local"}, refresh \in BOOLEAN :
        FetchAllAccountsQuota([method |-> method, refresh |-> refresh])
  \/ \E cacheValid \in BOOLEAN : LoopNext(cacheValid)
  \/ \E k \in 1..Len(Directory), ok \in BOOLEAN, cached \in BOOLEAN : FetchSettles(k, ok, cached)
  \/ \E account \in {UndefinedStr} \cup Emails, method \in {"auto", "google", "local"},
        loggedIn \in BOOLEAN :
        FetchSingleAccountQuota([account |-> account, method |-> method], loggedIn)
  \/ \E loggedIn \in BOOLEAN : SingleLocalFails(loggedIn)
  \/ \E ok \in BOOLEAN : SingleSettles(ok)
  \/ \E email \in Emails, activated \in BOOLEAN : LoginCommand(email, activated)

SpecAccounts == InitAccounts /\ [][NextAccounts]_vars

\* ---------------------------------------------------------- token manager
\* Refresh token 5 minutes before expiry
EXPIRY_BUFFER_MS == 5 * 60 * 1000
\* refreshToken's MAX_RETRIES and BASE_DELAY_MS
MAX_RETRIES == 3
BASE_DELAY_MS == 1000

\* isTokenExpired
isTokenExpired(tk, t) == tk = <<>> \/ t >= tk[1].expiresAt - EXPIRY_BUFFER_MS

\* String.prototype.toLowerCase on the words of the error messages
ToLowerCase(word) ==
  CASE word = "INVALID_GRANT" -> "invalid_grant"
    [] word = "Token has been revoked" -> "token has been revoked"
    [] word = "Token refresh failed: " -> "token refresh failed: "
    [] OTHER -> word

\* lastError.message.toLowerCase().includes(part), a message being the
\* sequence of its parts
MessageIncludes(message, part) ==
  \E j \in 1..Len(message) : ToLowerCase(message[j]) = part

\* variant: a rejected request (401) is retried
isPermanentError_Without401(message) ==
  \/ MessageIncludes(message, "invalid_grant")
  \/ MessageIncludes(message, "400")
  \/ MessageIncludes(message, "invalid_token")
  \/ MessageIncludes(message, "token has been revoked")

\* isPermanentError
isPermanentError(message) ==
  \/ MessageIncludes(message, "invalid_grant")
  \/ MessageIncludes(message, "400")
  \/ MessageIncludes(message, "401")
  \/ MessageIncludes(message, "invalid_token")
  \/ MessageIncludes(message, "token has been revoked")

\* delayMs = BASE_DELAY_MS * Math.pow(2, attempt - 1)
BackoffDelay(attempt) == BASE_DELAY_MS * 2 ^ (attempt - 1)

\* a step of the token manager: its variables change, and the clock
TokenStep(pc, tk, attempt, log, result, t) ==
  /\ tpc' = pc /\ tokens' = tk /\ tattempt' = attempt /\ tlog' = log /\ tresult' = result
  /\ now' = t
  /\ UNCHANGED <<config, modelMapping, accountStatus, activeEmail, faults, efired, avars,
                 host, fvars, pvars,
                 ovars, resetState, history, dvars, evars, qvars>>

TokenReturns(value) == [ok |-> TRUE, value |-> value, error |-> "", isRetryable |-> FALSE]

TokenThrows(error, isRetryable) ==
  [ok |-> FALSE, value |-> "", error |-> error, isRetryable |-> isRetryable]

\* refreshToken up to its first request: without a refresh token it throws
RefreshTokenBegins ==
  IF tokens = <<>> \/ tokens[1].refreshToken = ""
  THEN TokenStep("threw", tokens, 0, <<>>, TokenThrows("NotLoggedInError", FALSE), now)
  ELSE TokenStep("request", tokens, 1, <<>>, NoTokenResult, now)

\* getValidAccessToken on a new manager, up to its first suspension
GetValidAccessToken ==
  /\ tpc = "idle"
  /\ tcall' = "getValidAccessToken"
  /\ IF tokens = <<>>
     THEN TokenStep("threw", tokens, 0, <<>>, TokenThrows("NotLoggedInError", FALSE), now)
     ELSE IF isTokenExpired(tokens, now)
     THEN RefreshTokenBegins
     ELSE TokenStep("returned", tokens, 0, <<>>, TokenReturns(tokens[1].accessToken), now)

\* refreshToken called directly on a new manager
RefreshToken ==
  /\ tpc = "idle"
  /\ tcall' = "refreshToken"
  /\ RefreshTokenBegins

\* refreshAccessToken answers: <<response>> or <<>> with the message of the
\* error thrown
RefreshAnswered(answer, message) ==
  /\ tpc = "request"
  /\ UNCHANGED tcall
  /\ LET log == Append(tlog, <<"refreshAccessToken", tokens[1].refreshToken, message>>)
     IN IF answer # <<>>
        THEN LET response == answer[1]
                 tk == [accessToken |-> response.access_token,
                        refreshToken |-> IF response.refresh_token # "" THEN response.refresh_token
                                         ELSE tokens[1].refreshToken,
                        expiresAt |-> now + response.expires_in * 1000]
             IN TokenStep("returned", <<tk>>, tattempt, Append(log, <<"save", tk.accessToken>>),
                          TokenReturns(IF tcall = "getValidAccessToken" THEN tk.accessToken
                                       ELSE UndefinedStr), now)
        ELSE IF isPermanentError(message)
        THEN TokenStep("threw", tokens, tattempt, log, TokenThrows("TokenRefreshError", FALSE), now)
        ELSE IF tattempt < MAX_RETRIES
        THEN TokenStep("sleep", tokens, tattempt, log, tresult, now)
        ELSE TokenStep("threw", tokens, tattempt, log, TokenThrows("TokenRefreshError", TRUE), now)

\* the sleep after a transient failure is over: the next attempt starts
SleepOver ==
  /\ tpc = "sleep"
  /\ UNCHANGED tcall
  /\ TokenStep("request", tokens, tattempt + 1, Append(tlog, <<"sleep", BackoffDelay(tattempt)>>),
               tresult, now + BackoffDelay(tattempt))

\* the stored tokens of the account: none, or tokens expiring around the
\* refresh buffer, with or without a refresh token
StoredTokens ==
  {<<>>} \cup
  {<<[accessToken |-> "at0", refreshToken |-> rt, expiresAt |-> exp]>> :
     rt \in {"", "rt0"},
     exp \in {T0 - 1, T0 + EXPIRY_BUFFER_MS, T0 + EXPIRY_BUFFER_MS + 1, T0 + HOUR}}

RefreshResponses ==
  {<<[access_token |-> "at1", refresh_token |-> rt, expires_in |-> 3600]>> : rt \in {"", "rt1"}}

\* the messages of the errors refreshAccessToken throws: a status that is
\* not OK, a failed fetch, and messages naming the OAuth error
RefreshErrors ==
  {<<"Token refresh failed: ", "400">>, <<"Token refresh failed: ", "401">>,
   <<"Token refresh failed: ", "403">>, <<"Token refresh failed: ", "500">>,
   <<"fetch failed">>, <<"INVALID_GRANT">>, <<"invalid_token">>,
   <<"Token has been revoked">>}

InitRefresh ==
  /\ config = <<>> /\ modelMapping = <<>> /\ activeEmail = "a@x"
  /\ accountStatus = [e \in Emails |-> "valid"]
  /\ faults = {}
  /\ resetState = <<>>
  /\ history = <<>>
  /\ now = T0
  /\ InitDetector
  /\ InitExecutor
  /\ probe = NoProbe /\ appended = <<>>
  /\ crontab = <<>> /\ InitCronCalls /\ platform = "linux" /\ InitFetch /\ InitProject
  /\ tokens \in StoredTokens /\ InitTokenCall /\ InitMore

NextRefresh ==
  \/ GetValidAccessToken
  \/ RefreshToken
  \/ \E answer \in RefreshResponses : RefreshAnswered(answer, <<>>)
  \/ \E message \in RefreshErrors : RefreshAnswered(<<>>, message)
  \/ SleepOver

SpecRefresh == InitRefresh /\ [][NextRefresh]_vars

\* ------------------------------------------------------- quota service
\* what fetchQuota, the token manager it gets and the client it creates
\* leave alone
QuotaFrame ==
  UNCHANGED <<config, modelMapping, accountStatus, activeEmail, faults, efired, host, ovars,
              resetState, history, dvars, evars, qvars,
              acalls, lpc, lk, lactive, loptions, lresults, scall,
              ppc, pload, ptier, pi, plog, presult, tcall, tlog, tresult>>

\* a step of fetchQuota: its variables change
FetchStep(pc, method, process, ports, calls, result) ==
  /\ fpc' = pc /\ fmethod' = method /\ fprocess' = process /\ fports' = ports
  /\ fcalls' = calls /\ fresult' = result
  /\ QuotaFrame

\* the token manager singleton, its tokens with the stored project, the
\* client's project and the clock after a step
ManagerStep(inst, pc, tk, attempt, cached, id, t) ==
  /\ instance' = inst /\ tpc' = pc /\ tokens' = tk /\ tattempt' = attempt
  /\ pcached' = cached /\ projectId' = id /\ now' = t

\* a step of fetchQuotaLocal: no token manager, no client
ManagerKept == UNCHANGED <<instance, tpc, tokens, tattempt, pcached, projectId, now, fcount>>

Snapshot(method) == [ok |-> TRUE, method |-> method, error |-> ""]

Thrown(error) == [ok |-> FALSE, method |-> "", error |-> error]

\* TokenManager.isLoggedIn: the account (or the legacy token file) exists
\* and the manager has loaded tokens
isLoggedIn(tk, exists) == exists /\ tk # <<>>

\* extractProjectId of the cloudaicompanionProject of a response
extractProjectId(p) ==
  IF p = <<>> THEN UndefinedStr
  ELSE IF p[2] # UndefinedStr /\ p[2] # "" THEN p[2]
  ELSE UndefinedStr

\* request: the error thrown for a response that is not OK
StatusError(status) ==
  IF status = 401 \/ status = 403 THEN "AuthenticationError"
  ELSE IF status = 429 THEN "RateLimitError"
  ELSE "APIError"

\* request: the error thrown when fetch itself (or reading its body) throws;
\* only a TypeError of fetch becomes a NetworkError
FailureError(failure) == IF failure = "TypeError: fetch failed" THEN "NetworkError" ELSE failure

\* a request of fetchQuotaGoogle throws: out of loadCodeAssist the error goes
\* to the caller of fetchQuota, out of fetchAvailableModels it is caught and
\* the snapshot is made without models
RequestThrows(endpoint, error, method, process, ports, calls, inst, pc, tk, attempt, cached, id, t) ==
  /\ IF endpoint = "loadCodeAssist"
     THEN FetchStep("threw", method, process, ports, Append(calls, <<endpoint, error>>),
                    Thrown(error))
     ELSE FetchStep("returned", method, process, ports, Append(calls, <<endpoint, error>>),
                    Snapshot("google"))
  /\ ManagerStep(inst, pc, tk, attempt, cached, id, t)

\* request(endpoint) up to its first suspension: getValidAccessToken throws
\* without tokens, starts refreshToken when the token is expired (which
\* throws without a refresh token), and otherwise the request is sent
RequestBegins(endpoint, method, process, ports, calls, inst, cached, id, t) ==
  IF tokens = <<>>
  THEN RequestThrows(endpoint, "NotLoggedInError", method, process, ports, calls, inst, "threw",
                     tokens, 0, cached, id, t)
  ELSE IF ~isTokenExpired(tokens, t)
  THEN /\ FetchStep(endpoint, method, process, ports, calls, NoQuota)
       /\ ManagerStep(inst, "returned", tokens, 0, cached, id, t)
  ELSE IF tokens[1].refreshToken = ""
  THEN RequestThrows(endpoint, "NotLoggedInError", method, process, ports, calls, inst, "threw",
                     tokens, 0, cached, id, t)
  ELSE /\ FetchStep(endpoint, method, process, ports, calls, NoQuota)
       /\ ManagerStep(inst, "request", tokens, 1, cached, id, t)

\* fetchQuotaGoogle up to its first suspension: getTokenManager creates the
\* singleton for the active account when there is none, the client takes the
\* project stored with the tokens, and loadCodeAssist begins its request
FetchQuotaGoogle(method, process, ports, calls) ==
  RequestBegins("loadCodeAssist", method, process, ports, calls,
                getTokenManager(instance, activeEmail), pcached,
                IF tokens = <<>> THEN UndefinedStr ELSE pcached, now)

\* fetchQuota: the method decides where it starts
FetchQuota(method) ==
  /\ fpc \in {"idle", "returned", "threw"}
  /\ fcount < MaxFetches
  /\ fcount' = fcount + 1
  /\ IF method = "google" THEN FetchQuotaGoogle(method, Null, <<>>, <<>>)
     ELSE /\ FetchStep("detect", method, Null, <<>>, <<>>, NoQuota)
          /\ UNCHANGED <<instance, tpc, tokens, tattempt, pcached, projectId, now>>

\* fetchQuotaLocal throws: in local mode fetchQuota throws the same; in auto
\* mode the catch gets the token manager, goes on to the Google method if
\* the user is logged in, and throws NoAuthMethodAvailableError otherwise
LocalThrows(error, process, ports, calls, exists) ==
  /\ UNCHANGED fcount
  /\ IF fmethod = "local"
     THEN /\ FetchStep("threw", fmethod, process, ports, calls, Thrown(error))
          /\ UNCHANGED <<instance, tpc, tokens, tattempt, pcached, projectId, now>>
     ELSE IF isLoggedIn(tokens, exists)
     THEN FetchQuotaGoogle(fmethod, process, ports, calls)
     ELSE /\ FetchStep("threw", fmethod, process, ports, calls,
                       Thrown("NoAuthMethodAvailableError"))
          /\ ManagerStep(getTokenManager(instance, activeEmail), tpc, tokens, tattempt,
                         pcached, projectId, now)

\* step 1: detectAntigravityProcess
ProcessDetected(processInfo, exists) ==
  /\ fpc = "detect"
  /\ LET calls == Append(fcalls, <<"detectAntigravityProcess">>)
     IN IF processInfo = Null
        THEN LocalThrows("AntigravityNotRunningError", processInfo, fports, calls, exists)
        ELSE FetchStep("discover", fmethod, processInfo, fports, calls, fresult) /\ ManagerKept

\* step 2: discoverPorts
PortsDiscovered(ports, exists) ==
  /\ fpc = "discover"
  /\ LET calls == Append(fcalls, <<"discoverPorts", fprocess.pid>>)
     IN IF Len(ports) = 0
        THEN LocalThrows("PortDetectionError", fprocess, ports, calls, exists)
        ELSE FetchStep("probe", fmethod, fprocess, ports, calls, fresult) /\ ManagerKept

\* step 3: probeForConnectAPI
PortsProbed(found, exists) ==
  /\ fpc = "probe"
  /\ LET calls == Append(fcalls, <<"probeForConnectAPI", fports, fprocess.csrfToken>>)
     IN IF ~found
        THEN LocalThrows("LocalConnectionError", fprocess, fports, calls, exists)
        ELSE FetchStep("status", fmethod, fprocess, fports, calls, fresult) /\ ManagerKept

\* steps 4 and 5: getUserStatus, parseLocalQuotaSnapshot
UserStatusReceived(ok, exists) ==
  /\ fpc = "status"
  /\ LET calls == Append(fcalls, <<"getUserStatus">>)
     IN IF ~ok
        THEN LocalThrows("LocalConnectionError", fprocess, fports, calls, exists)
        ELSE FetchStep("returned", fmethod, fprocess, fports, calls, Snapshot("local"))
             /\ ManagerKept

\* refreshAccessToken answers while a request of fetchQuotaGoogle waits for
\* its token: the new tokens are saved and the request is sent, or the
\* refresh fails for good, or it sleeps before the next attempt
TokenRefreshed(answer, message) ==
  /\ fpc \in {"loadCodeAssist", "fetchAvailableModels"}
  /\ tpc = "request"
  /\ UNCHANGED fcount
  /\ IF answer # <<>>
     THEN LET response == answer[1]
              tk == [accessToken |-> response.access_token,
                     refreshToken |-> IF response.refresh_token # "" THEN response.refresh_token
                                      ELSE tokens[1].refreshToken,
                     expiresAt |-> now + response.expires_in * 1000]
          IN /\ FetchStep(fpc, fmethod, fprocess, fports, fcalls, fresult)
             /\ ManagerStep(instance, "returned", <<tk>>, tattempt, pcached, projectId, now)
     ELSE IF isPermanentError(message) \/ tattempt >= MAX_RETRIES
     THEN RequestThrows(fpc, "TokenRefreshError", fmethod, fprocess, fports, fcalls, instance,
                        "threw", tokens, tattempt, pcached, projectId, now)
     ELSE /\ FetchStep(fpc, fmethod, fprocess, fports, fcalls, fresult)
          /\ ManagerStep(instance, "sleep", tokens, tattempt, pcached, projectId, now)

\* the sleep after a transient failure of the refresh is over
RefreshSleepOver ==
  /\ fpc \in {"loadCodeAssist", "fetchAvailableModels"}
  /\ tpc = "sleep"
  /\ UNCHANGED fcount
  /\ FetchStep(fpc, fmethod, fprocess, fports, fcalls, fresult)
  /\ ManagerStep(instance, "request", tokens, tattempt + 1, pcached, projectId,
                 now + BackoffDelay(tattempt))

\* the loadCodeAssist request is answered after elapsed ms: with a status and,
\* when it is 200, a response, or not at all (failure # "").  The client
\* keeps the project of the response, fetchQuotaGoogle stores it with the
\* tokens, and fetchAvailableModels begins its request.
LoadCodeAssistAnswered(status, response, failure, elapsed) ==
  /\ fpc = "loadCodeAssist"
  /\ tpc = "returned"
  /\ UNCHANGED fcount
  /\ IF failure # ""
     THEN RequestThrows(fpc, FailureError(failure), fmethod, fprocess, fports, fcalls, instance,
                        tpc, tokens, tattempt, pcached, projectId, now + elapsed)
     ELSE IF status # 200
     THEN RequestThrows(fpc, StatusError(status), fmethod, fprocess, fports, fcalls, instance,
                        tpc, tokens, tattempt, pcached, projectId, now + elapsed)
     ELSE LET id == extractProjectId(response.cloudaicompanionProject)
              calls == Append(fcalls, <<"loadCodeAssist", "ok">>)
          IN RequestBegins("fetchAvailableModels", fmethod, fprocess, fports,
                           IF id # UndefinedStr THEN Append(calls, <<"setProjectId", id>>)
                           ELSE calls,
                           instance, IF id # UndefinedStr THEN id ELSE pcached,
                           ProjectIdAfter(projectId, response), now + elapsed)

\* the fetchAvailableModels request, sent with the client's project, is
\* answered or fails; either way the snapshot is returned
ModelsAnswered(status, failure) ==
  /\ fpc = "fetchAvailableModels"
  /\ tpc = "returned"
  /\ UNCHANGED fcount
  /\ FetchStep("returned", fmethod, fprocess, fports,
               Append(fcalls, <<"fetchAvailableModels", projectId,
                                IF failure # "" THEN FailureError(failure)
                                ELSE IF status # 200 THEN StatusError(status) ELSE "ok">>),
               Snapshot("google"))
  /\ ManagerStep(instance, tpc, tokens, tattempt, pcached, projectId, now)

QuotaMethods == {"auto", "google", "local"}

\* the language-server process found: none, one without and one with an
\* --extension_server_port argument
ProcessInfos ==
  {Null,
   [pid |-> 123, csrfToken |-> UndefinedStr, extensionServerPort |-> Undefined],
   [pid |-> 123, csrfToken |-> UndefinedStr, extensionServerPort |-> 60479],
   [pid |-> 123, csrfToken |-> "abc123token", extensionServerPort |-> 42001]}

PortLists == {<<>>, <<1234>>, <<1234, 42001>>}

\* the tokens of the active account: none, expired with and without a
\* refresh token, about to reach the refresh buffer, and fresh
QuotaTokens ==
  {<<>>,
   <<[accessToken |-> "at0", refreshToken |-> "", expiresAt |-> T0 - 1]>>,
   <<[accessToken |-> "at0", refreshToken |-> "rt0", expiresAt |-> T0 - 1]>>,
   <<[accessToken |-> "at0", refreshToken |-> "rt0",
      expiresAt |-> T0 + EXPIRY_BUFFER_MS + 1]>>,
   <<[accessToken |-> "at0", refreshToken |-> "rt0", expiresAt |-> T0 + HOUR]>>}

\* the answers to a token refresh: new tokens, a rejection, a failed request
QuotaRefreshErrors == {<<"Token refresh failed: ", "401">>, <<"fetch failed">>}

\* the statuses of the API's answers, and the ways a request fails
ResponseStatuses == {200, 401, 403, 429, 500, 404}

FetchFailures == {"TypeError: fetch failed", "SyntaxError"}

\* the responses of loadCodeAssist: without a project, with a project as a
\* string and as an object, with and without an ID
LoadResponses ==
  {[cloudaicompanionProject |-> p, allowedTiers |-> <<>>, paidTier |-> UndefinedStr,
    currentTier |-> UndefinedStr] :
     p \in {<<>>, <<"string", "project-1">>, <<"object", "project-2">>,
            <<"object", UndefinedStr>>}}

InitQuota ==
  /\ config = <<>> /\ modelMapping = <<>> /\ activeEmail = "a@x"
  /\ accountStatus = [e \in Emails |-> "valid"]
  /\ faults = {}
  /\ resetState = <<>>
  /\ history = <<>>
  /\ now = T0
  /\ InitDetector
  /\ InitExecutor
  /\ probe = NoProbe /\ appended = <<>>
  /\ crontab = <<>> /\ InitCronCalls /\ platform = "linux" /\ InitFetch
  /\ ppc = "idle" /\ projectId = UndefinedStr
  /\ pload = NoResponse /\ ptier = UndefinedStr /\ pi = 0 /\ plog = <<>>
  /\ presult = UndefinedStr
  /\ tokens \in QuotaTokens
  /\ pcached \in IF tokens = <<>> THEN {UndefinedStr} ELSE {UndefinedStr, "project-0"}
  /\ InitTokenCall
  /\ InitOverlap /\ efired = {}
  /\ instance \in {UndefinedStr, getTokenManager(UndefinedStr, activeEmail)}
  /\ acalls = <<>> /\ lpc = "idle" /\ lk = 0 /\ lactive = UndefinedStr /\ lresults = <<>>
  /\ loptions = [method |-> "auto", refresh |-> FALSE] /\ scall = NoSingle

NextQuota ==
  \/ \E method \in QuotaMethods : FetchQuota(method)
  \/ \E processInfo \in ProcessInfos, exists \in BOOLEAN : ProcessDetected(processInfo, exists)
  \/ \E ports \in PortLists, exists \in BOOLEAN : PortsDiscovered(ports, exists)
  \/ \E found \in BOOLEAN, exists \in BOOLEAN : PortsProbed(found, exists)
  \/ \E ok \in BOOLEAN, exists \in BOOLEAN : UserStatusReceived(ok, exists)
  \/ \E answer \in RefreshResponses : TokenRefreshed(answer, <<>>)
  \/ \E message \in QuotaRefreshErrors : TokenRefreshed(<<>>, message)
  \/ RefreshSleepOver
  \/ \E status \in ResponseStatuses, response \in LoadResponses, elapsed \in {0, Latency} :
        LoadCodeAssistAnswered(status, response, "", elapsed)
  \/ \E failure \in FetchFailures, elapsed \in {0, Latency} :
        LoadCodeAssistAnswered(200, NoResponse, failure, elapsed)
  \/ \E status \in ResponseStatuses : ModelsAnswered(status, "")
  \/ \E failure \in FetchFailures : ModelsAnswered(200, failure)

SpecQuota == InitQuota /\ [][NextQuota]_vars

\* calls of the read-only operations, for every state of the account
\* directory: each account valid, expired or invalid, either of them or
\* none active
QueryStatuses == [Emails -> {"valid", "expired", "invalid"}]

QueryActive == {UndefinedStr} \cup Emails

\* quota records on the 0-100 scale, around the threshold and the window
QueryModels ==
  {MkModel(<<"m1", pct, ms, FALSE>>, T0) :
     pct \in {Undefined, 0, 50, 98, 99, 100},
     ms \in {Undefined, 4 * HOUR, RESET_TIME_MIN_MS - 1, RESET_TIME_MIN_MS, 5 * HOUR,
             RESET_TIME_MAX_MS, RESET_TIME_MAX_MS + 1, 6 * HOUR}}

\* selections: none, empty, known and unknown accounts, in both orders
QuerySelections ==
  {NoSelection, <<>>, <<"a@x">>, <<"b@x", "a@x">>, <<"a@x", "b@x">>,
   <<"c@x", "b@x", "a@x">>, <<"c@x">>}

\* snapshots of up to three models, unused ones and others
QueryShapes ==
  {<<"m1", 100, 5 * HOUR, TRUE>>, <<"m2", 98, 5 * HOUR, TRUE>>,
   <<"m3", 99, RESET_TIME_MAX_MS, FALSE>>}

QuerySnapshots ==
  {MkSnapshot(shapes, T0) :
     shapes \in {<<>>} \cup {<<a>> : a \in QueryShapes}
                \cup {<<a, b>> : a \in QueryShapes, b \in QueryShapes}
                \cup {<<a, b, c>> : a \in QueryShapes, b \in QueryShapes, c \in QueryShapes}}

\* a read-only operation is called and returns
Returns(fn, arg, result) ==
  /\ probe' = [fn |-> fn, input |-> arg, result |-> result]
  /\ UNCHANGED <<docs, appended, resetState, history, now, dvars, evars>>

IsModelUnusedCalled(model) == Returns("isModelUnused", model, isModelUnused(model))

ResolveAccountsCalled(selected) ==
  Returns("resolveAccounts", selected, resolveAccounts(selected))

FindUnusedModelsCalled(models) ==
  Returns("findUnusedModels", models, findUnusedModels(models))

HasUnusedModelsCalled(models) ==
  Returns("hasUnusedModels", models, hasUnusedModels(models))

InitQuery ==
  /\ config = <<>> /\ modelMapping = <<>>
  /\ activeEmail \in QueryActive
  /\ accountStatus \in QueryStatuses
  /\ faults = {}
  /\ resetState = <<>>
  /\ history = <<>>
  /\ now = T0
  /\ InitDetector
  /\ InitExecutor
  /\ InitQueries

NextQuery ==
  \/ \E model \in QueryModels : IsModelUnusedCalled(model)
  \/ \E selected \in QuerySelections : ResolveAccountsCalled(selected)
  \/ \E models \in QuerySnapshots : FindUnusedModelsCalled(models)
  \/ \E models \in QuerySnapshots : HasUnusedModelsCalled(models)

SpecQuery == InitQuery /\ [][NextQuery]_vars

\* executeTrigger calls against a server that may never answer: the timers
\* (setTimeout) fire and settled batches resume the loop, while nothing is
\* assumed of the generateContent calls
TimeoutOptions ==
  {[models |-> ms, accountEmail |-> "a@x", triggerType |-> "auto",
    triggerSource |-> "scheduled", customPrompt |-> "wake up", maxOutputTokens |-> 1] :
     ms \in TriggerModelLists}

InitTimeout ==
  /\ config = <<>> /\ modelMapping = <<>> /\ activeEmail = "a@x"
  /\ accountStatus = [e \in Emails |-> "valid"]
  /\ faults = {"timeout"}
  /\ resetState = <<>>
  /\ history = <<>>
  /\ now = T0
  /\ InitDetector
  /\ InitExecutor
  /\ InitQueries

NextTimeout ==
  \/ \E opts \in TimeoutOptions, dt \in {Latency}, cred \in CredOutcomes,
        diskOk \in DiskOutcomes : CallExecuteTrigger(opts, dt, cred, diskOk)
  \/ ExecuteTriggerReturns
  \/ ExecutorNext

TimersFire == \A j \in 1..MAX_CONCURRENT_REQUESTS : WF_vars(RequestTimesOut(j))

LoopResumes == WF_vars(\E diskOk \in DiskOutcomes : BatchSettled(diskOk))

SpecTimeout == InitTimeout /\ [][NextTimeout]_vars /\ TimersFire /\ LoopResumes

\* ================================================================ claims
\* What the claims say of a finished scan is stated over the invocation's
\* inputs: its snapshot (dsnapshot), its clock reading (dnow) and the
\* reset-state document at its call (dloaded).

\* the invocation got as far as the scan and wrote what the scan decided
Scanned == runs > 0 /\ dpc \in {"fanout", "returned"}

\* the unused predicate as documented: at least 99 % left, reset 4.5 h to 5.5 h away
SaidUnused(model) ==
  /\ model.remainingPercentage # Undefined /\ model.remainingPercentage >= 99
  /\ model.timeUntilResetMs # Undefined
  /\ model.timeUntilResetMs >= 16200000 /\ model.timeUntilResetMs <= 19800000

\* the entry under key was written less than one hour before the scan
SaidRecent(key) ==
  /\ key \in DOMAIN dloaded
  /\ dnow - ParseISO(dloaded[key].lastTriggeredTime) < 3600000

SaidDue(model) == SaidUnused(model) /\ ~SaidRecent(model.modelId)

\* the trigger batch as documented
SaidBatch ==
  LET due == SelectSeq(dsnapshot, SaidDue)
  IN [j \in 1..Len(due) |-> due[j].modelId]

\* the accounts to trigger as documented
SaidUsable(email) == accountStatus[email] \in {"valid", "expired"}

SaidAccounts == SelectSeq(Directory, SaidUsable)

InSeq(x, seq) == \E j \in 1..Len(seq) : seq[j] = x

\* C1 as stated: a model whose reset-state entry was written less than one
\* hour before the scan is neither put in the batch nor has its entry
\* rewritten, although it is unused; and while reset-state is not cleared,
\* any two scans that put the same model in their batch are at least one hour
\* apart.
SaidPassedOver ==
  runs' = runs + 1 =>
    \A j \in 1..Len(dsnapshot') :
       LET id == dsnapshot'[j].modelId
       IN (/\ id \in DOMAIN resetState
           /\ now' - (resetState[id].lastTriggeredTime[1] * 1000
                      + resetState[id].lastTriggeredTime[2]) < 3600000) =>
            /\ ~InSeq(id, dbatch')
            /\ id \in DOMAIN resetState' /\ resetState'[id] = resetState[id]

SaidPassedOverAlways == [][SaidPassedOver]_vars

\* the scans that put a model in their batch since reset-state was cleared
SaidApart ==
  \A m \in ModelIds : \A i, j \in 1..Len(triggerLog[m]) :
    (i < j /\ triggerLog[m][i] >= 0 /\ triggerLog[m][j] >= 0) =>
      triggerLog[m][j] - triggerLog[m][i] >= 3600000

C1_Cooldown == SaidPassedOverAlways /\ []SaidApart

\* the same, for the scans with no saveResetState call between them
SaidApartWhileKept ==
  \A m \in ModelIds : \A i, j \in 1..Len(triggerLog[m]) :
    (/\ i < j /\ triggerLog[m][i] >= 0 /\ triggerLog[m][j] >= 0
     /\ \A k \in i..j : triggerLog[m][k] >= 0) =>
      triggerLog[m][j] - triggerLog[m][i] >= 3600000

\* C1, amended: as stated, but two scans that put the same model in their
\* batch are at least one hour apart while reset-state is neither cleared nor
\* replaced by a saveResetState call.
C1_CooldownWhileKept == SaidPassedOverAlways /\ []SaidApartWhileKept

\* an unused model is passed over by a scan 59 min 59.999 s after its trigger
C1_Witness ==
  /\ Scanned
  /\ \E j \in 1..Len(dsnapshot) :
       /\ SaidUnused(dsnapshot[j])
       /\ SaidRecent(dsnapshot[j].modelId)
       /\ dnow - ParseISO(dloaded[dsnapshot[j].modelId].lastTriggeredTime) = 3599999
       /\ ~InSeq(dsnapshot[j].modelId, dbatch)

\* C2: reset-state is keyed by the reset key of the model: the entry of a
\* triggered model is stored under its reset key, and a model whose reset key
\* was triggered under another model ID by an earlier scan, less than one
\* hour before this one, is not put in the batch.
C2_KeyedByResetKey ==
  (dpc = "fanout") =>
    /\ \A j \in 1..Len(dbatch) : getResetKey(dbatch[j]) \in DOMAIN resetState
    /\ \A j \in 1..Len(dbatch) : \A a \in ModelIds :
         (/\ a # dbatch[j]
          /\ getResetKey(a) = getResetKey(dbatch[j])
          /\ triggerLog[a] # <<>>
          /\ triggerLog[a][Len(triggerLog[a])] < dnow)
         => dnow - triggerLog[a][Len(triggerLog[a])] >= 3600000

\* C3: the invocation returns {triggered: true, triggeredModels: batch} exactly
\* when the config exists and is enabled, some directory account is valid or
\* expired and the batch is not empty, whatever the calls for the accounts
\* did; in every other case it returns {triggered: false, triggeredModels: []}.
C3_ReturnValue ==
  (runs > 0 /\ dpc = "returned") =>
    dresult =
      IF /\ config # <<>> /\ config[1].enabled
         /\ \E e \in Emails : accountStatus[e] \in {"valid", "expired"}
         /\ SaidBatch # <<>>
      THEN [triggered |-> TRUE, triggeredModels |-> SaidBatch]
      ELSE [triggered |-> FALSE, triggeredModels |-> <<>>]

\* triggered is true although no account's call had a successful result
C3_Witness ==
  /\ runs > 0 /\ dpc = "returned"
  /\ dresult.triggered
  /\ Len(dcalls) = 2
  /\ dsuccess = 0

\* C4: the batch is, in snapshot order, the IDs of exactly the snapshot
\* models that are unused and not in cooldown, whether or not
\* config.selectedModels names them.
C4_Batch ==
  (Scanned /\ config # <<>> /\ config[1].enabled /\ SaidAccounts # <<>>) =>
    dbatch = SaidBatch

\* a model that the configuration does not select is in the batch, next to a
\* snapshot model that is not
C4_Witness ==
  /\ Scanned
  /\ dbatch = <<"m1">>
  /\ ~InSeq("m1", config[1].selectedModels)
  /\ Len(dsnapshot) = 2

\* C5: the accounts the fan-out has called executeTrigger for are, in
\* directory order, the accounts whose status is valid or expired, whatever
\* config.selectedAccounts and the active account are.
C5_Accounts ==
  /\ dpc = "fanout" =>
       /\ Len(dcalls) <= Len(SaidAccounts)
       /\ \A j \in 1..Len(dcalls) : dcalls[j].accountEmail = SaidAccounts[j]
  /\ (dpc = "returned" /\ dresult.triggered) =>
       [j \in 1..Len(dcalls) |-> dcalls[j].accountEmail] = SaidAccounts

\* both accounts were triggered although the configuration selects only the
\* second, which is also the active one
C5_Witness ==
  /\ dpc = "returned" /\ dresult.triggered
  /\ [j \in 1..Len(dcalls) |-> dcalls[j].accountEmail] = <<"a@x", "b@x">>
  /\ config[1].selectedAccounts = <<"b@x">>
  /\ activeEmail = "b@x"

\* the options documented for the fan-out call of the j-th usable account
SaidOpts(j, batch) ==
  [models |-> batch, accountEmail |-> SaidAccounts[j],
   triggerType |-> "auto", triggerSource |-> "quota_reset",
   customPrompt |-> config[1].customPrompt, maxOutputTokens |-> config[1].maxOutputTokens]

\* C6: the fan-out is sequential: every generation request being awaited
\* belongs to the executeTrigger call started last, which is the call for the
\* account the loop is at, and the loop starts the call for the next account
\* only when the call before it has returned or thrown, none of its requests
\* being awaited any more.
C6_Sequential ==
  /\ [](/\ \A id \in racing : id[1] = ncalls /\ epc = "batch"
        /\ dpc = "fanout" => Len(dcalls) = dk /\ eopts = dcalls[dk])
  /\ [][(dpc = "fanout" /\ ncalls' = ncalls + 1)
          => (epc \in {"returned", "threw"} /\ racing = {})]_vars

\* requests of the second account are awaited; the first account's call is over
C6_Witness ==
  /\ dpc = "fanout" /\ dk = 2
  /\ racing # {}
  /\ eopts.accountEmail = "b@x"

\* C7: the fan-out calls executeTrigger once per usable account, in order,
\* with the whole batch, triggerType "auto", triggerSource "quota_reset" and
\* the configured prompt and token cap, whatever the earlier calls returned
\* or threw.
C7_Fanout ==
  /\ dpc = "fanout" =>
       \A j \in 1..Len(dcalls) : j <= Len(SaidAccounts) /\ dcalls[j] = SaidOpts(j, dbatch)
  /\ (dpc = "returned" /\ dresult.triggered) =>
       dcalls = [j \in 1..Len(SaidAccounts) |-> SaidOpts(j, dresult.triggeredModels)]

\* the call for the first account threw (it left no record), and the second
\* account was called all the same
C7_Witness ==
  /\ runs = 1 /\ dpc = "returned" /\ dresult.triggered
  /\ Len(dcalls) = 2
  /\ history # <<>>
  /\ \A j \in 1..Len(history) : history[j].accountEmail = "b@x"

\* C8: the step in which executeTrigger returns for a non-empty model list
\* puts exactly one record per requested model in front of the history, in
\* reverse order of the models, each with models = [the model], the call's
\* account, trigger type and source, the prompt sent and the success flag and
\* error of the model's result; no other step of a call changes the history.
C8_OneRecordPerModel ==
  [][IF epc # "returned" /\ epc' = "returned" /\ Len(eopts'.models) > 0
     THEN LET n == Len(eopts'.models)
          IN /\ Len(eret'.results) = n
             /\ Len(history') = Len(history) + n
             /\ SubSeq(history', n + 1, Len(history')) = history
             /\ \A j \in 1..n :
                  LET record == history'[n + 1 - j]
                  IN /\ record.models = <<eopts'.models[j]>>
                     /\ record.accountEmail = eopts'.accountEmail
                     /\ record.triggerType = eopts'.triggerType
                     /\ record.triggerSource = eopts'.triggerSource
                     /\ record.prompt = IF eopts'.customPrompt \in {UndefinedStr, ""}
                                        THEN "hi" ELSE eopts'.customPrompt
                     /\ record.success = eret'.results[j].success
                     /\ record.error = eret'.results[j].error
     ELSE history' = history]_vars

\* a call for five models without a custom prompt has returned with a
\* success, a rejection and a timeout among its results
C8_Witness ==
  /\ epc = "returned"
  /\ Len(eopts.models) = 5 /\ eopts.customPrompt = UndefinedStr
  /\ Len(history) = 5
  /\ \E i, j, k \in 1..5 :
       /\ history[i].success
       /\ history[j].error = <<"API request failed">>
       /\ history[k].error = <<"Request timed out">>

\* C9: a rejected or timed-out generation request becomes the failed result
\* of its model and nothing else: executeTrigger throws only when the disk
\* fails, every model of the current and the earlier batches has had its
\* request issued, and the results returned by the normal path hold one entry
\* per requested model, in the order of the models, successful exactly when
\* the model's own request was answered.
C9_FailureCaptured ==
  /\ epc = "threw" => "disk" \in faults
  /\ epc = "batch" =>
       /\ DOMAIN eoutcome = 1..(IF ei + 4 < Len(eopts.models) THEN ei + 4 ELSE Len(eopts.models))
       /\ Len(eresults) = ei
  /\ (epc = "returned" /\ DOMAIN eoutcome # {}) =>
       /\ DOMAIN eoutcome = 1..Len(eopts.models)
       /\ Len(eret.results) = Len(eopts.models)
       /\ \A j \in 1..Len(eopts.models) :
            /\ eret.results[j].modelId = eopts.models[j]
            /\ eret.results[j].success = (eoutcome[j] = "ok")
            /\ eoutcome[j] = "ok" => eret.results[j].error = NoError
            /\ eoutcome[j] = "failed" => eret.results[j].error = <<"API request failed">>
            /\ eoutcome[j] = "timeout" => eret.results[j].error = <<"Request timed out">>

\* the first request was rejected and the second timed out; their siblings
\* and the request of the second batch were answered
C9_Witness ==
  /\ epc = "returned"
  /\ DOMAIN eoutcome = 1..5
  /\ eoutcome[1] = "failed" /\ eoutcome[2] = "timeout"
  /\ eoutcome[3] = "ok" /\ eoutcome[4] = "ok" /\ eoutcome[5] = "ok"
  /\ eret.results[5].success

\* C10: at most four of the generation requests of one executeTrigger call
\* are in flight at any time.
C10_AtMostFourInFlight ==
  Cardinality({id \in inflight : id[1] = ncalls}) <= 4

\* the models executeTrigger has requested a generation for, in call order
IsGenerate(entry) == entry[1] = "generateContent"

SaidDispatched ==
  LET calls == SelectSeq(elog, IsGenerate)
  IN [j \in 1..Len(calls) |-> calls[j][2]]

\* C11: the generation requests of a call are issued in the order of the
\* models list, each model once, in consecutive batches of four (the last
\* one possibly smaller), and whenever a batch has been dispatched every
\* request of the batches before it has settled.
C11_Batches ==
  (epc # "idle") =>
    LET d == SaidDispatched
    IN /\ Len(d) <= Len(eopts.models)
       /\ \A j \in 1..Len(d) : d[j] = eopts.models[j]
       /\ Len(d) = Len(eopts.models) \/ Len(d) % 4 = 0
       /\ DOMAIN eoutcome = 1..Len(d)
       /\ \A k \in 1..Len(d) :
            eoutcome[k] = "pending" => k > 4 * ((Len(d) - 1) \div 4)

\* the second batch of a five-model call is awaited, after a first batch
\* that ended with a timeout, a rejection and two answers
C11_Witness ==
  /\ epc = "batch" /\ ei = 4
  /\ SaidDispatched = <<"m1", "m2", "m3", "m4", "m5">>
  /\ eoutcome[1] = "timeout" /\ eoutcome[2] = "failed"
  /\ eoutcome[3] = "ok" /\ eoutcome[4] = "ok"
  /\ eoutcome[5] = "pending"

\* C12: every generation request is raced against its own 30 s timer: a
\* request whose timer fired gives its model a failed result with the
\* timeout error after at least 30 s, no model is requested twice, the firing
\* leaves the sibling requests as they were, and a call that has reached its
\* batches returns (or throws) in the end even if no generation call ever
\* completes.
C12_Timeout ==
  /\ [](epc = "returned" =>
          \A k \in DOMAIN eoutcome :
            eoutcome[k] = "timeout" =>
              /\ ~eret.results[k].success
              /\ eret.results[k].error = <<"Request timed out">>
              /\ eret.results[k].durationMs >= 30000)
  /\ [](epc # "idle" => Len(SelectSeq(elog, IsGenerate)) <= Len(eopts.models))
  /\ [][\A j \in 1..Len(ereq) :
          (/\ Len(ereq') = Len(ereq) /\ ei' = ei /\ epc' = "batch"
           /\ ereq[j].st = "pending" /\ ereq'[j].st = "timeout")
          => \A i \in 1..Len(ereq) : i # j => ereq'[i] = ereq[i]]_vars
  /\ (epc = "batch") ~> (epc \in {"returned", "threw"})

\* a five-model call has returned although none of its generation calls
\* has completed, every result a timeout
C12_Witness ==
  /\ epc = "returned"
  /\ Len(eopts.models) = 5
  /\ \A k \in 1..5 : eoutcome[k] = "timeout" /\ <<ncalls, k>> \in inflight
  /\ \A k \in 1..5 : eret.results[k].error = <<"Request timed out">>

\* the call could not get the credential handle, or its token check failed
SaidCredentialFailure ==
  /\ elog # <<>>
  /\ \/ elog[1] = <<"getTokenManagerForAccount", "throws">>
     \/ /\ Len(elog) >= 2
        /\ elog[2][1] = "getValidAccessToken"
        /\ elog[2][2] \in {"detailed", "error", "other"}

\* the error documented for the results of such a call
SaidCredentialError ==
  IF elog[1][2] = "throws" THEN <<"Failed to get credentials for ", eopts.accountEmail>>
  ELSE IF elog[2][2] = "detailed" THEN <<"TokenRefreshError.getDetailedMessage">>
  ELSE IF elog[2][2] = "error" THEN <<"Token refresh failed: ", "Not logged in">>
  ELSE <<"Authentication failed for ", eopts.accountEmail>>

\* C13: when the credential handle cannot be acquired or the token check
\* fails, executeTrigger makes no further call (no second attempt, no project
\* resolution, no generation request) and returns success = false with one
\* failed result per requested model, durationMs 0, whose error is the
\* detailed refresh message when the error provides one, else a generic one.
C13_FailFast ==
  (epc # "idle" /\ SaidCredentialFailure) =>
    /\ epc \in {"returned", "threw"}
    /\ Len(elog) = (IF elog[1][2] = "throws" THEN 1 ELSE 2)
    /\ DOMAIN eoutcome = {}
    /\ \A id \in inflight : id[1] # ncalls
    /\ epc = "returned" =>
         /\ ~eret.success
         /\ eret.results =
              [j \in 1..Len(eopts.models) |->
                 [modelId |-> eopts.models[j], success |-> FALSE, durationMs |-> 0,
                  error |-> SaidCredentialError]]

\* a five-model call returned after a refresh failure that carries a
\* detailed message
C13_Witness ==
  /\ epc = "returned"
  /\ Len(eopts.models) = 5
  /\ elog = <<<<"getTokenManagerForAccount", "ok">>, <<"getValidAccessToken", "detailed">>>>
  /\ \A j \in 1..5 : eret.results[j].error = <<"TokenRefreshError.getDetailedMessage">>

\* C14: the success of a returned call is true exactly when every result is
\* successful; the results hold one entry per model, under the model's ID,
\* with the outcome of the model's own request.
C14_OverallSuccess ==
  (epc = "returned") =>
    /\ eret.success = (\A j \in 1..Len(eret.results) : eret.results[j].success)
    /\ Len(eret.results) = Len(eopts.models)
    /\ \A j \in 1..Len(eret.results) :
         /\ eret.results[j].modelId = eopts.models[j]
         /\ j \in DOMAIN eoutcome => eret.results[j].success = (eoutcome[j] = "ok")

\* a call returned success = false with a failed first model and four
\* successful ones
C14_Witness ==
  /\ epc = "returned"
  /\ ~eret.success
  /\ Len(eret.results) = 5
  /\ ~eret.results[1].success
  /\ \A j \in 2..5 : eret.results[j].success

\* C15: executeTrigger with an empty models list returns {success: true,
\* results: []} at once and changes nothing: it makes no call (credential
\* handle, token check, project resolution, generation) and writes no
\* document.
C15_EmptyModels ==
  [][(ncalls' = ncalls + 1 /\ eopts'.models = <<>>) =>
       /\ epc' = "returned"
       /\ eret' = [success |-> TRUE, results |-> <<>>]
       /\ elog' = <<>>
       /\ inflight' = inflight
       /\ history' = history
       /\ resetState' = resetState
       /\ config' = config /\ modelMapping' = modelMapping
       /\ accountStatus' = accountStatus /\ activeEmail' = activeEmail]_vars

\* the second call had an empty list; the records of the first are all
\* there is in the history
C15_Witness ==
  /\ epc = "returned"
  /\ ncalls = 2
  /\ eopts.models = <<>>
  /\ eret = [success |-> TRUE, results |-> <<>>]
  /\ Len(history) = 5

\* C16: after n addTriggerRecord calls on an empty history the history holds
\* the min(n, 100) records appended last, newest first; it never holds more
\* than 100.
C16_RingBuffer ==
  LET n == Len(appended)
  IN /\ Len(history) = (IF n < 100 THEN n ELSE 100)
     /\ Len(history) <= 100
     /\ \A j \in 1..Len(history) : history[j] = appended[n + 1 - j]

\* 105 records were appended: the history holds the last 100, the 105th
\* first and the 6th last
C16_Witness ==
  /\ Len(appended) = 105
  /\ Len(history) = 100
  /\ history[1] = appended[105]
  /\ history[100] = appended[6]

\* C17: isModelUnused is true exactly when remainingPercentage is defined
\* and in [99, 100] and timeUntilResetMs is defined and in
\* [16200000, 19800000]; the inputs are quota records on the 0-100 scale.
C17_IsModelUnused ==
  (probe.fn = "isModelUnused") =>
    probe.result =
      (/\ probe.input.remainingPercentage # Undefined
       /\ probe.input.remainingPercentage >= 99 /\ probe.input.remainingPercentage <= 100
       /\ probe.input.timeUntilResetMs # Undefined
       /\ probe.input.timeUntilResetMs >= 16200000
       /\ probe.input.timeUntilResetMs <= 19800000)

\* 99 % left and exactly 5.5 h to the reset: unused
C17_Witness ==
  /\ probe.fn = "isModelUnused"
  /\ probe.input.remainingPercentage = 99
  /\ probe.input.timeUntilResetMs = 19800000
  /\ probe.result = TRUE

\* an element of an explicit selection that is to be kept
SaidSelected(email) ==
  /\ InSeq(email, Directory)
  /\ accountStatus[email] \in {"valid", "expired"}

\* C18: resolveAccounts of a defined selection returns, in the order given,
\* the elements of the selection that are in the directory with status valid
\* or expired; of the empty selection, the empty list.
C18_ExplicitSelection ==
  (probe.fn = "resolveAccounts" /\ probe.input # NoSelection) =>
    /\ probe.result = SelectSeq(probe.input, SaidSelected)
    /\ probe.input = <<>> => probe.result = <<>>

\* the unknown account and the invalid one are dropped although the invalid
\* one is the active account
C18_Witness ==
  /\ probe.fn = "resolveAccounts"
  /\ probe.input = <<"c@x", "b@x", "a@x">>
  /\ accountStatus["a@x"] = "invalid" /\ activeEmail = "a@x"
  /\ accountStatus["b@x"] = "expired"
  /\ probe.result = <<"b@x">>

\* C19: resolveAccounts without a selection returns the active account if it
\* is valid or expired, else the first valid or expired account of the
\* directory, else nothing: at most one account, never an invalid one.
C19_Fallback ==
  (probe.fn = "resolveAccounts" /\ probe.input = NoSelection) =>
    /\ probe.result =
         IF activeEmail # UndefinedStr /\ accountStatus[activeEmail] \in {"valid", "expired"}
         THEN <<activeEmail>>
         ELSE IF SaidAccounts # <<>> THEN <<SaidAccounts[1]>>
         ELSE <<>>
    /\ Len(probe.result) <= 1
    /\ \A j \in 1..Len(probe.result) : accountStatus[probe.result[j]] # "invalid"

\* the active account is invalid: the second account of the directory, the
\* first usable one, is returned
C19_Witness ==
  /\ probe.fn = "resolveAccounts" /\ probe.input = NoSelection
  /\ activeEmail = "a@x" /\ accountStatus["a@x"] = "invalid"
  /\ accountStatus["b@x"] = "expired"
  /\ probe.result = <<"b@x">>

\* C20: findUnusedModels returns the models of the snapshot that are unused,
\* in snapshot order; hasUnusedModels is true exactly when there is one; a
\* call of either leaves the wake-up documents as they are.
C20_FindUnused ==
  /\ [](probe.fn = "findUnusedModels" => probe.result = SelectSeq(probe.input, SaidUnused))
  /\ [](probe.fn = "hasUnusedModels" =>
          probe.result = (SelectSeq(probe.input, SaidUnused) # <<>>))
  /\ [][probe'.fn \in {"findUnusedModels", "hasUnusedModels"} =>
          /\ config' = config /\ modelMapping' = modelMapping
          /\ resetState' = resetState /\ history' = history]_vars

\* of three models the first and the third are unused, and returned in order
C20_Witness ==
  /\ probe.fn = "findUnusedModels"
  /\ Len(probe.input) = 3
  /\ [j \in 1..Len(probe.result) |-> probe.result[j].modelId] = <<"m1", "m3">>
  /\ probe.input[2].modelId = "m2"

\* C21: for any history and any limit >= 0, getRecentHistory(limit) returns
\* the first min(limit, length) records of the history, newest first, and
\* getLastTrigger returns the most recently appended record, or null when
\* the history is empty; both leave the history as it is.
C21_RecentHistory ==
  [][(appended' = appended /\ probe'.fn \in {"getRecentHistory", "getLastTrigger"}) =>
       LET n == Len(appended)
           k == IF probe'.input < Len(history) THEN probe'.input ELSE Len(history)
       IN /\ history' = history
          /\ (probe'.fn = "getRecentHistory" /\ probe'.input >= 0) =>
               /\ probe'.result = [j \in 1..k |-> history[j]]
               /\ probe'.result = [j \in 1..k |-> appended[n + 1 - j]]
          /\ probe'.fn = "getLastTrigger" =>
               probe'.result = (IF n = 0 THEN [null |-> TRUE] ELSE appended[n])]_vars

\* five records, limit 3: the three newest
C21_Witness ==
  /\ probe.fn = "getRecentHistory" /\ probe.input = 3
  /\ Len(appended) = 5
  /\ Len(probe.result) = 3
  /\ probe.result[1] = appended[5] /\ probe.result[3] = appended[3]

\* a line that carries the wakeup marker; the marked lines of a crontab
SaidMarked(line) == \E j \in 1..Len(line) : line[j] = "antigravity-usage-wakeup"

SaidMarkedLines(file) == SelectSeq(file, SaidMarked)

\* what the claim says of the marked lines: after a successful install there
\* is exactly one, with the expression of the call; a successful uninstall
\* leaves none and succeeds when there was none
SaidMarkedLinesStep ==
  /\ (probe'.fn = "installCronJob" /\ probe'.result.success) =>
        /\ Len(SaidMarkedLines(crontab')) = 1
        /\ SaidMarkedLines(crontab')[1][1] = probe'.input
  /\ (probe'.fn = "uninstallCronJob" /\ platform \in {"linux", "darwin"}) =>
        /\ (probe'.result = TRUE => SaidMarkedLines(crontab') = <<>>)
        /\ (SaidMarkedLines(crontab) = <<>> => probe'.result = TRUE)

SaidMarkedLinesManaged == [][SaidMarkedLinesStep]_vars

\* isCronJobInstalled tells whether a marked line is present
SaidReportedStep ==
  (/\ probe'.fn = "isCronJobInstalled" /\ platform \in {"linux", "darwin"}
   /\ crontab' = crontab /\ cronCalls' = cronCalls /\ cronTrace' = cronTrace) =>
     probe'.result = (SaidMarkedLines(crontab) # <<>>)

SaidInstalledReported == [][SaidReportedStep]_vars

\* an installCronJob call writes the crontab and returns success
SaidInstallStep == probe'.fn = "installCronJob" /\ cronTrace'[3] = "installed"

SaidAllKept ==
  SaidInstallStep =>
    \A j \in 1..Len(crontab) : ~SaidMarked(crontab[j]) => InSeq(crontab[j], crontab')

\* a line that is not blank and does not carry the marker
SaidEntry(line) == ~SaidMarked(line) /\ line # <<>>

\* the call's write follows its read with no other change of the crontab
\* between them: the entries are kept in order, behind the PATH line when the
\* install adds one
SaidEntriesKept ==
  (SaidInstallStep /\ cronTrace[3] = "install") =>
    LET before == SelectSeq(crontab, SaidEntry)
        after == SelectSeq(crontab', SaidEntry)
    IN \/ after = before
       \/ after = <<<<"PATH=", "/usr/local/bin:/usr/bin:/bin:/opt/homebrew/bin">>>> \o before

\* C22 as stated: after a successful installCronJob the crontab has exactly
\* one marked line, with the expression of that call, and every line without
\* the marker that was there before is still there; uninstallCronJob removes
\* every marked line and returns true also when there is none;
\* isCronJobInstalled is true exactly when a marked line is present.
C22_Crontab ==
  /\ SaidMarkedLinesManaged
  /\ SaidInstalledReported
  /\ [][SaidAllKept]_vars

\* C22, amended: as stated, but the lines without the marker that an install
\* preserves are the non-blank ones that were there when it read the crontab
\* and still are when it writes it; they keep their order, behind the PATH
\* line when the install adds one.
C22_CrontabEntries ==
  /\ SaidMarkedLinesManaged
  /\ SaidInstalledReported
  /\ [][SaidEntriesKept]_vars

\* a second install on a crontab with a comment: one marked line, with the
\* later expression, behind the comment
C22_Witness ==
  /\ probe.fn = "installCronJob" /\ probe.input = "0 10 * * *" /\ probe.result.success
  /\ Len(crontab) = 3
  /\ crontab[2] = <<"#", "backups">>
  /\ crontab[3][1] = "0 10 * * *" /\ SaidMarked(crontab[3])

\* C23: in local mode, when port discovery returns no ports but the process
\* info carries an extension server port, fetchQuota calls probeForConnectAPI
\* with that single port and does not fail with a port-detection error.
C23_ExtensionPortFallback ==
  (/\ fpc \in {"returned", "threw"} /\ fmethod = "local"
   /\ fprocess # [null |-> TRUE]
   /\ fprocess.extensionServerPort # -1
   /\ fports = <<>>) =>
    /\ \E j \in 1..Len(fcalls) :
         fcalls[j] = <<"probeForConnectAPI", <<fprocess.extensionServerPort>>, fprocess.csrfToken>>
    /\ fresult.error # "PortDetectionError"

\* the reset-state document has an entry for every model of the batch,
\* written at the time of the scan
SaidBatchPersisted(batch, state, t) ==
  \A j \in 1..Len(batch) :
    /\ batch[j] \in DOMAIN state
    /\ state[batch[j]].lastTriggeredTime[1] * 1000 + state[batch[j]].lastTriggeredTime[2] = t

\* C24: the reset-state entry of every model of the trigger batch is
\* persisted by the scan, before the first executeTrigger call of the cycle
\* begins, and is still there when the cycle ends, also when every account's
\* trigger failed or threw.
C24_PersistedBeforeTrigger ==
  /\ [](dpc = "fanout" => SaidBatchPersisted(dbatch, resetState, dnow))
  /\ [][(dpc = "fanout" /\ dpc' = "returned") =>
          SaidBatchPersisted(dbatch', resetState', dnow')]_vars

\* a cycle has ended without a successful request, its calls recorded as
\* failed, and the entries of its batch are in reset-state
C24_Witness ==
  /\ dpc = "returned" /\ dresult.triggered /\ dsuccess = 0
  /\ Len(dbatch) > 0 /\ Len(dcalls) > 0
  /\ \A j \in 1..Len(dbatch) : dbatch[j] \in DOMAIN resetState
  /\ Len(history) > 0
  /\ \A j \in 1..Len(history) : ~history[j].success

\* the batch of a sixty-minute cooldown for the snapshot of the scan, from
\* the reset-state the scan found
SaidDueAtScan(model) ==
  /\ SaidUnused(model)
  /\ ~(/\ model.modelId \in DOMAIN resetState
       /\ now' - (resetState[model.modelId].lastTriggeredTime[1] * 1000
                  + resetState[model.modelId].lastTriggeredTime[2]) < 3600000)

SaidBatchOfSixtyMinutes ==
  (runs' = runs + 1 /\ config # <<>> /\ config[1].enabled /\ dpc' # "threw") =>
    LET due == SelectSeq(dsnapshot', SaidDueAtScan)
    IN dbatch' = [j \in 1..Len(due) |-> due[j].modelId]

\* C25: the cooldown of detectResetAndTrigger is sixty minutes for every
\* value of config.resetCooldownMinutes: configurations that differ only in
\* that field give the same trigger batch for the same snapshot, reset-state
\* and time, the batch of a sixty-minute cooldown.
C25_CooldownFixed == [][SaidBatchOfSixtyMinutes]_vars

\* m1 is unused and was triggered 30 minutes ago: with resetCooldownMinutes
\* = 10 it is not in the batch, which m2 is
C25_Witness ==
  /\ dpc = "fanout" /\ dconfig[1].resetCooldownMinutes = 10
  /\ SaidUnused(dsnapshot[1]) /\ dsnapshot[1].modelId = "m1"
  /\ "m1" \in DOMAIN dloaded
  /\ dnow - (dloaded["m1"].lastTriggeredTime[1] * 1000 + dloaded["m1"].lastTriggeredTime[2])
       = 1800000
  /\ dbatch = <<"m2">>

\* C26: a model the API reports at full quota (remainingFraction = 1) with a
\* reset time between 4.5 h and 5.5 h ahead is, after parseQuotaSnapshot,
\* classified as unused by findUnusedModels.
C26_ParsedFullQuotaUnused ==
  (probe.fn = "parseQuotaSnapshot") =>
    \A j \in 1..Len(probe.input) :
      LET modelId == probe.input[j][1]
          info == probe.input[j][2]
      IN (/\ \E k \in 1..Len(probe.result.models) : probe.result.models[k].modelId = modelId
          /\ info.quotaInfo[1].remainingFraction = 1
          /\ info.quotaInfo[1].resetTime # <<>>
          /\ info.quotaInfo[1].resetTime[1] * 1000 + info.quotaInfo[1].resetTime[2] - now
               >= 16200000
          /\ info.quotaInfo[1].resetTime[1] * 1000 + info.quotaInfo[1].resetTime[2] - now
               <= 19800000)
         => \E k \in 1..Len(probe.result.unused) : probe.result.unused[k].modelId = modelId

\* a detectResetAndTrigger invocation that returns triggered = false
SaidNotTriggeredStep == runs' = runs + 1 /\ dpc' = "returned" /\ ~dresult'.triggered

\* C27: when detectResetAndTrigger returns triggered = false (config absent
\* or disabled, no eligible account, or no model that is unused and out of
\* cooldown) it has written nothing to reset-state or history and has not
\* called executeTrigger; with no eligible account no entry is written even
\* for unused models.
C27_NotTriggeredFrame ==
  /\ [][SaidNotTriggeredStep =>
          /\ resetState' = resetState /\ history' = history
          /\ ncalls' = ncalls /\ epc' = "idle" /\ elog' = elog /\ dcalls' = <<>>]_vars
  /\ [][(runs' = runs + 1 /\ dpc' # "threw") =>
          ((dpc' = "returned" /\ ~dresult'.triggered) <=>
             \/ config = <<>>
             \/ ~config[1].enabled
             \/ SelectSeq(Directory, SaidUsable) = <<>>
             \/ dbatch' = <<>>)]_vars

\* the config is enabled, no account is valid or expired, an unused model is
\* in the snapshot: not triggered, and reset-state is still empty
C27_Witness ==
  /\ runs > 0 /\ dpc = "returned" /\ ~dresult.triggered
  /\ config # <<>> /\ config[1].enabled
  /\ \A e \in Emails : accountStatus[e] = "invalid"
  /\ \E j \in 1..Len(dsnapshot) : SaidUnused(dsnapshot[j])
  /\ resetState = <<>> /\ history = <<>> /\ ncalls = 0

\* the project resolution of the call gave no identifier, or threw
SaidProjectUnresolved ==
  /\ Len(elog) >= 3
  /\ elog[3][1] = "resolveProjectId"
  /\ elog[3][2] \in {"none", "throws"}

\* C28: when project resolution yields no identifier, or throws,
\* executeTrigger still issues a generation request for every requested
\* model, in order, and the result of each model is the outcome of its own
\* generation call: the unresolved identifier makes no result fail and no
\* call throw.
C28_ProjectBestEffort ==
  (epc # "idle" /\ SaidProjectUnresolved) =>
    /\ epc \in {"batch", "returned"}
    /\ epc = "returned" =>
         /\ SelectSeq(elog, IsGenerate)
              = [j \in 1..Len(eopts.models) |-> <<"generateContent", eopts.models[j]>>]
         /\ Len(eret.results) = Len(eopts.models)
         /\ \A j \in 1..Len(eopts.models) :
              /\ eret.results[j].modelId = eopts.models[j]
              /\ eret.results[j].success = (eoutcome[j] = "ok")
              /\ eoutcome[j] \in {"ok", "failed", "timeout"}
         /\ eret.success = (\A j \in 1..Len(eopts.models) : eoutcome[j] = "ok")
    /\ epc = "batch" => Len(SelectSeq(elog, IsGenerate)) > 0

\* the resolution threw, and the five models of the call all succeeded
C28_Witness ==
  /\ epc = "returned"
  /\ Len(eopts.models) = 5
  /\ Len(elog) >= 3 /\ elog[3] = <<"resolveProjectId", "throws">>
  /\ eret.success
  /\ \A j \in 1..5 : eret.results[j].success

\* the status queries in a log of requests and waits
StatusQueries(log) == SelectSeq(log, LAMBDA call : call[1] = "loadCodeAssist")

\* the log of a call that onboarded: one query, the onboarding request, then
\* waits of 2 seconds, each followed by a query unless it is still running
SaidRetryLog ==
  /\ Len(plog) >= 1 /\ plog[1] = <<"loadCodeAssist">>
  /\ Len(plog) >= 2 =>
       /\ plog[2][1] = "onboardUser"
       /\ \A k \in 3..Len(plog) :
            IF k % 2 = 1 THEN plog[k] = <<"setTimeout", 2000>>
            ELSE plog[k] = <<"loadCodeAssist">>

SaidResolveProtocol ==
  /\ pcached # UndefinedStr /\ ppc # "idle"
       => ppc = "returned" /\ presult = pcached /\ plog = <<>>
  /\ pcached = UndefinedStr /\ ppc \notin {"idle", "load"} => SaidRetryLog
  /\ Len(StatusQueries(plog)) <= 6
  /\ now = T0 + 2000 * Len(SelectSeq(plog, LAMBDA call : call[1] = "setTimeout"))
  \* an identifier ends the call at once
  /\ projectId # UndefinedStr => ppc = "returned" /\ presult = projectId
  /\ ppc = "returned" /\ presult # UndefinedStr /\ plog # <<>>
       => plog[Len(plog)] = <<"loadCodeAssist">>
  \* none is returned after onboarding only when the 5th retry found none
  /\ ppc = "returned" /\ presult = UndefinedStr /\ Len(plog) >= 2
       => Len(StatusQueries(plog)) = 6 /\ plog[Len(plog)] = <<"loadCodeAssist">>
  /\ ppc \in {"wait", "poll"} => Len(StatusQueries(plog)) < 6

\* C29 as stated: resolveProjectId returns a cached identifier without any
\* request; otherwise it queries the status once, and after onboarding queries
\* it again at most 5 times, waiting 2 seconds before each query, returning as
\* soon as a query yields an identifier and returning none after the 5th; a
\* call always ends, after at most 6 status queries.
C29_ResolveProtocol ==
  /\ []SaidResolveProtocol
  /\ (ppc # "idle") ~> (ppc \in {"returned", "threw"})

\* every request the call has sent is answered or fails in the end
SaidRequestsAnswered ==
  /\ WF_vars(\E answer \in FirstAnswers : FirstLoadAnswered(answer))
  /\ WF_vars(\E ok \in BOOLEAN : OnboardAnswered(ok))
  /\ WF_vars(\E answer \in RetryAnswers : RetryLoadAnswered(answer))

\* C29 (amended): the protocol and the bound of 6 status queries hold as
\* stated; a call ends if every request it sends is answered or fails, and
\* waits for good on a request that never is, the requests having no timeout.
C29_ResolveProtocolIfAnswered ==
  /\ []SaidResolveProtocol
  /\ SaidRequestsAnswered => ((ppc # "idle") ~> (ppc \in {"returned", "threw"}))

\* five retries found no identifier
C29_Witness ==
  /\ ppc = "returned" /\ presult = UndefinedStr
  /\ Len(StatusQueries(plog)) = 6 /\ now = T0 + 10000

\* the tier IDs the answer offers, in the order default tier, paid tier, first
\* allowed tier
SaidTierIds ==
  LET tiers == pload.allowedTiers
      flagged == SelectSeq(tiers, LAMBDA t : t.isDefault)
  IN SelectSeq((IF flagged # <<>> THEN <<flagged[1].id>> ELSE <<>>)
                 \o <<pload.paidTier>>
                 \o (IF tiers # <<>> THEN <<tiers[1].id>> ELSE <<>>),
               LAMBDA id : id # UndefinedStr)

\* the first query found no identifier
SaidTierPicked == pcached = UndefinedStr /\ ppc \notin {"idle", "load", "threw"}
                  /\ pload # NoResponse /\ pload.cloudaicompanionProject \notin
                       {<<"string", "project-1">>, <<"object", "project-2">>}

\* C30: onboarding uses the default allowed tier, else the paid
\* tier, else the first allowed tier, and is skipped, with no identifier
\* returned, only when none of them provides a tier ID.
C30_TierPriority ==
  SaidTierPicked =>
    IF SaidTierIds = <<>>
    THEN ppc = "returned" /\ presult = UndefinedStr /\ plog = <<<<"loadCodeAssist">>>>
    ELSE /\ ppc # "onboard" => Len(plog) >= 2 /\ plog[2][1] = "onboardUser"
         /\ Len(plog) >= 2 => plog[2][2] = SaidTierIds[1]

\* the refresh requests and the sleeps in a log of the token manager
RefreshRequests(log) == SelectSeq(log, LAMBDA call : call[1] = "refreshAccessToken")

Sleeps(log) == SelectSeq(log, LAMBDA call : call[1] = "sleep")

\* the message says the refresh token is rejected for good
SaidPermanent(message) ==
  message \in {<<"Token refresh failed: ", "400">>, <<"Token refresh failed: ", "401">>,
               <<"INVALID_GRANT">>, <<"invalid_token">>, <<"Token has been revoked">>}

\* a refresh request is answered: what the call does next
SaidRefreshStep(answer, message) ==
  LET requests == Len(RefreshRequests(tlog')) IN
  /\ requests = Len(RefreshRequests(tlog)) + 1
  /\ IF answer # <<>>
     THEN /\ tpc' = "returned" /\ tokens'[1].accessToken = "at1"
          /\ tlog'[Len(tlog')] = <<"save", "at1">>
     ELSE IF SaidPermanent(message)
     THEN tpc' = "threw" /\ tresult' = TokenThrows("TokenRefreshError", FALSE)
     ELSE IF requests = 3
     THEN tpc' = "threw" /\ tresult' = TokenThrows("TokenRefreshError", TRUE)
     ELSE tpc' = "sleep"

SaidRefreshSteps ==
  /\ \A answer \in RefreshResponses :
       RefreshAnswered(answer, <<>>) => SaidRefreshStep(answer, <<>>)
  /\ \A message \in RefreshErrors :
       RefreshAnswered(<<>>, message) => SaidRefreshStep(<<>>, message)
  /\ tpc' \in {"returned", "threw"} => tlog' # <<>> \/ tpc = "idle"

SaidRefreshBounded ==
  /\ Len(RefreshRequests(tlog)) <= 3
  /\ tpc \in {"request", "sleep"} => Len(RefreshRequests(tlog)) < 3
  \* a token that does not expire within 5 minutes is returned as it is
  /\ tcall = "getValidAccessToken" /\ tokens # <<>> /\ tokens[1].accessToken = "at0"
       /\ T0 < tokens[1].expiresAt - 300000
       => tlog = <<>> /\ tpc = "returned" /\ tresult = TokenReturns("at0")
  \* the new tokens are there exactly after a success, which ends the call
  /\ tokens # <<>> /\ tokens[1].accessToken = "at1"
       => tpc = "returned" /\ tlog[Len(tlog)] = <<"save", "at1">>

\* C31: a token refresh makes at most 3 refresh requests; it stops at the
\* first success, persisting the new tokens; a failure classified permanent
\* ends it at once with a non-retryable refresh error; the 3rd transient
\* failure ends it with a retryable refresh error; and getValidAccessToken
\* makes no refresh request when the stored token is not within 5 minutes of
\* its expiry.
C31_RefreshAttempts == []SaidRefreshBounded /\ [][SaidRefreshSteps]_vars

\* three transient failures
C31_Witness ==
  /\ tpc = "threw" /\ tresult = TokenThrows("TokenRefreshError", TRUE)
  /\ Len(RefreshRequests(tlog)) = 3

\* the waits of a refresh that has failed for good after 3 transient failures
SaidExhausted == tpc = "threw" /\ tresult.isRetryable /\ Len(RefreshRequests(tlog)) = 3

\* C32: in a token refresh whose 3 attempts all fail transiently
\* the k-th failed attempt is followed by a wait of 1000 * 2^(k-1) ms: 1 s,
\* 2 s and 4 s.
C32_BackoffDelays ==
  SaidExhausted =>
    Sleeps(tlog) = <<<<"sleep", 1000>>, <<"sleep", 2000>>, <<"sleep", 4000>>>>

\* the reset time the snapshot of the running invocation gives for a model
SaidResetAt(key) ==
  LET model == dsnapshot'[CHOOSE j \in 1..Len(dsnapshot') : dsnapshot'[j].modelId = key]
  IN IF model.resetTime = <<>> THEN <<now' \div 1000, now' % 1000>> ELSE model.resetTime

\* clearResetState
SaidClearStep == resetState' = <<>> /\ runs' = runs /\ evars' = evars

\* updateResetState(key, resetAt) called on its own
SaidUpdateCall ==
  runs' = runs /\ probe'.fn = "updateResetState" /\ resetState' # resetState

\* saveResetState(state) called on its own
SaidSaveCall ==
  /\ runs' = runs /\ probe'.fn = "saveResetState"
  /\ resetState' # resetState /\ resetState' = probe'.input

\* the step keeps every entry: the entry of a key put in the batch by this
\* step, or named by the updateResetState call, is the one written now, and
\* every other entry is as it was
SaidEntriesStep ==
  /\ DOMAIN resetState \subseteq DOMAIN resetState'
  /\ \A k \in DOMAIN resetState' :
       IF runs' = runs + 1 /\ dpc' = "fanout" /\ \E j \in 1..Len(dbatch') : dbatch'[j] = k
       THEN resetState'[k] = [lastResetAt |-> SaidResetAt(k),
                              lastTriggeredTime |-> <<now' \div 1000, now' % 1000>>]
       ELSE IF SaidUpdateCall /\ k = probe'.input[1]
       THEN resetState'[k] = [lastResetAt |-> probe'.input[2],
                              lastTriggeredTime |-> <<now' \div 1000, now' % 1000>>]
       ELSE k \in DOMAIN resetState /\ resetState'[k] = resetState[k]

SaidResetStateStep == SaidClearStep \/ SaidEntriesStep

\* C33 as stated: reset-state holds one entry per key; updateResetState sets
\* exactly the entry of its key (lastResetAt = resetAt, lastTriggeredTime =
\* the time of the write) and leaves every other entry as it was; only
\* clearResetState removes entries, detectResetAndTrigger never does.
C33_ResetStateEntries == [][SaidResetStateStep]_vars

SaidResetStateStepOrSave == SaidClearStep \/ SaidSaveCall \/ SaidEntriesStep

\* C33, amended: as stated, but entries are removed by clearResetState and
\* also by a saveResetState call whose document lacks them; updateResetState
\* and detectResetAndTrigger never remove one.
C33_ResetStateEntriesUnlessSaved == [][SaidResetStateStepOrSave]_vars

\* updateResetState has set the entry of m1 beside the entry of m2
C33_WitnessUpdate ==
  /\ probe.fn = "updateResetState"
  /\ DOMAIN resetState = {"m1", "m2"}
  /\ resetState["m1"].lastTriggeredTime # resetState["m2"].lastTriggeredTime

\* an entry written by the second invocation beside one kept from the first
C33_Witness ==
  /\ DOMAIN resetState = {"m1", "m2"}
  /\ resetState["m1"].lastTriggeredTime # resetState["m2"].lastTriggeredTime

\* testTrigger is called: one executeTrigger call starts, for the requested
\* model alone, as a manual trigger
SaidTestCall ==
  probe'.fn = "testTrigger" /\ probe'.result = <<>> /\ (probe.fn = "" \/ probe.result # <<>>)
    => /\ ncalls' = ncalls + 1
       /\ eopts'.models = <<probe'.input[1]>> /\ eopts'.accountEmail = probe'.input[2]
       /\ eopts'.triggerType = "manual" /\ eopts'.triggerSource = "manual"
       /\ eopts'.customPrompt = probe'.input[3]

\* while testTrigger waits no other executeTrigger call starts, and it returns
\* the result executeTrigger gave for the model
SaidTestReturn ==
  probe.fn = "testTrigger" /\ probe.result = <<>>
    => /\ ncalls' = ncalls
       /\ probe'.result # <<>> /\ epc = "returned"
            => /\ Len(eret.results) = 1
               /\ probe'.result = <<eret.results[1]>>
               /\ probe'.result[1].modelId = probe.input[1]
               /\ probe'.result[1].error # <<"No result returned">>

SaidTestStep == SaidTestCall /\ SaidTestReturn

\* C34: testTrigger(modelId, accountEmail, prompt) performs exactly one
\* executeTrigger call, for the requested model alone, with triggerType and
\* triggerSource "manual", and returns that model's individual result, whose
\* modelId is the requested one; the made-up "no result" failure is returned
\* only when executeTrigger produced no result.
C34_TestTrigger == [][SaidTestStep]_vars

\* testTrigger has returned the successful result of its model
C34_Witness ==
  /\ probe.fn = "testTrigger" /\ Len(probe.result) = 1 /\ probe.result[1] # Rejected
  /\ probe.result[1].success /\ probe.result[1].modelId = "m9"

\* how often a model ID is in a list
SaidCount(list, id) == Cardinality({j \in 1..Len(list) : list[j] = id})

\* invocation j started while invocation i was suspended in its fan-out, and
\* both put the model into their batches
SaidBothTrigger(i, j, id) ==
  /\ i \in oduring[j]
  /\ SaidCount(obatch[i], id) > 0 /\ SaidCount(obatch[j], id) > 0

\* C35 as stated: when two invocations of detectResetAndTrigger overlap in
\* one process and both snapshots list the same unused model, the model is in
\* the batch of at most one of them.
C35_OverlapOnce ==
  \A i \in 1..2, j \in 1..2, id \in {"m1", "m2"} : ~SaidBothTrigger(i, j, id)

\* C35 (amended): when two invocations of detectResetAndTrigger overlap in
\* one process and both snapshots list the same unused model, the model is in
\* the batch of at most one of them, provided the second invocation starts
\* less than 60 minutes after the first and reset-state is neither cleared
\* (clearResetState) nor replaced (saveResetState) while the first is
\* suspended.
C35_OverlapOnceInCooldown ==
  \A i \in 1..2, j \in 1..2, id \in {"m1", "m2"} :
    SaidBothTrigger(i, j, id) => ostart[j] - ostart[i] >= 60 * 60 * 1000 \/ orewrites > 0

\* the second invocation started within the cooldown while the first was
\* suspended, with the model unused in both snapshots, and left it out
C35_Witness ==
  /\ 1 \in oduring[2] /\ ostart[2] - ostart[1] < 60 * 60 * 1000 /\ orewrites = 0
  /\ SaidCount(obatch[1], "m1") > 0 /\ SaidCount(obatch[2], "m1") = 0
  /\ \E k \in 1..Len(osnapshot[2]) :
       osnapshot[2][k].modelId = "m1" /\ osnapshot[2][k].remainingPercentage = 100

\* C36 as stated: the triggeredModels list detectResetAndTrigger returns
\* holds each model ID at most once, for every snapshot, also one that lists
\* a model ID more than once.
C36_TriggeredModelsDistinct ==
  \A i \in 1..2, id \in {"m1", "m2"} :
    /\ SaidCount(oresult[i].triggeredModels, id) <= 1
    /\ SaidCount(obatch[i], id) <= 1

\* the entries of an invocation's snapshot that list the model with a quota
\* of at least 99 and a reset 4.5 to 5.5 hours away
SaidUnusedEntries(i, id) ==
  {k \in 1..Len(osnapshot[i]) :
     /\ osnapshot[i][k].modelId = id
     /\ osnapshot[i][k].remainingPercentage >= 99
     /\ osnapshot[i][k].timeUntilResetMs >= 16200000
     /\ osnapshot[i][k].timeUntilResetMs <= 19800000}

\* C36 (amended): the triggeredModels list holds a model ID once for each
\* entry of the snapshot that lists the model as unused, or not at all: at
\* most once when the snapshot lists no model ID twice, and twice when it
\* lists an unused model twice, since reset-state is loaded once before the
\* scan and not read again.
C36_TriggeredModelsPerEntry ==
  \A i \in 1..2, id \in {"m1", "m2"} :
    /\ SaidCount(obatch[i], id) \in {0, Cardinality(SaidUnusedEntries(i, id))}
    /\ ofan[i].pc # "idle" => ofan[i].opts.models = obatch[i]
    /\ opc[i] = "returned" => oresult[i].triggeredModels = obatch[i]

\* a returned list with a model twice, after a call that recorded a result
\* for each of its three requests, one of them rejected
C36_Witness ==
  \E i \in 1..2 :
    /\ opc[i] = "returned" /\ SaidCount(oresult[i].triggeredModels, "m1") = 2
    /\ Len(ofan[i].ret.results) = 3
    /\ ofan[i].ret.results[1].success /\ ~ofan[i].ret.results[3].success

\* the losing side of a settled race completes: the abandoned generation call
\* ends, or the timer of an answered request fires
SaidLoserCompletes ==
  \/ inflight' # inflight /\ inflight' \subseteq inflight /\ racing' = racing
  \/ efired' # efired

\* nothing the caller of executeTrigger sees changes; and the history grows
\* only when a call records its results, by one record for each of its models
SaidLoserStep ==
  /\ SaidLoserCompletes =>
       /\ eoutcome' = eoutcome /\ ereq' = ereq /\ eresults' = eresults /\ eret' = eret
       /\ history' = history
       /\ epc' = epc /\ elog' = elog
  /\ history' # history =>
       /\ epc' = "returned" /\ epc # "returned"
       /\ Len(history') = Len(history) + Len(eopts'.models)

\* every model of a returned call has one result, which says how its race
\* ended
SaidOneResultEach ==
  /\ epc = "returned" /\ eopts.models # <<>> /\ DOMAIN eoutcome # {} =>
       /\ Len(eret.results) = Len(eopts.models)
       /\ \A k \in 1..Len(eret.results) :
            /\ eret.results[k].modelId = eopts.models[k]
            /\ eret.results[k].success = (eoutcome[k] = "ok")
            /\ eoutcome[k] = "timeout" => eret.results[k].error = <<"Request timed out">>

\* C37: once the 30-second race of a model has settled, the later completion
\* of its losing side, the abandoned generation call or the still pending
\* timer, changes neither the result returned for the model nor the history,
\* adds no second record, and raises no error to the caller of executeTrigger.
C37_LoserDiscarded == []SaidOneResultEach /\ [][SaidLoserStep]_vars

\* a call has returned a success and a timeout; the timer of the first has
\* fired since and the abandoned call of the second has ended
C37_Witness ==
  /\ epc = "returned" /\ Len(eret.results) = 2
  /\ eret.results[1].success /\ eret.results[2].error = <<"Request timed out">>
  /\ <<ncalls, 1>> \in efired /\ inflight = {}

\* no fetchQuotaForAccount call is running
SaidSettled == lpc # "idle" /\ \A k \in 1..Len(acalls) : acalls[k].pc \in {"returned", "threw"}

\* the calls that run with the active account switched
SaidSwitches == {k \in 1..Len(acalls) : acalls[k].pc = "fetching" /\ acalls[k].switched}

\* the accounts are fetched one after another, each with the Google method
SaidSequential ==
  /\ Cardinality({k \in 1..Len(acalls) : acalls[k].pc = "fetching"}) <= 1
  /\ Cardinality(SaidSwitches) <= 1
  /\ \A k \in 1..Len(acalls) : acalls[k].method = "google"
  /\ \A k \in SaidSwitches : activeEmail = acalls[k].email /\ instance = acalls[k].email

\* C38: whenever fetchQuotaForAccount has returned or thrown, the
\* active account is the one that was active before the call, and the token
\* manager singleton is reset so that it reloads that account's tokens; the
\* all-accounts fetch processes the accounts one after another, with at most
\* one temporary switch in effect.
C38_ActiveRestored ==
  /\ SaidSequential
  /\ SaidSettled => activeEmail = lactive /\ instance \in {UndefinedStr, lactive}

\* a successful uninstallCronJob that follows a successful installCronJob,
\* with no other change of the crontab from the read of the one to the write
\* of the other
SaidRoundTripStep ==
  /\ cronTrace = <<"install", "installed", "uninstall">>
  /\ cronTrace' = <<"installed", "uninstall", "uninstalled">>

SaidRoundTripRestores == SaidRoundTripStep => crontab' = cronBefore

\* C39: installCronJob followed by uninstallCronJob leaves the
\* crontab with exactly the lines it had before the install, in the same
\* order, the PATH line and the job line both removed again
C39_RoundTrip == [][SaidRoundTripRestores]_vars

====
